---- MODULE Spec2Model ----
(***************************************************************************)
(* Model of the fastly-tls-operator reconciliation engine                  *)
(* (internal/reconciler/fastlycertificatesync): the shared Logic object,   *)
(* the observe / act / status steps of a reconciliation pass, the Fastly   *)
(* provider's key, certificate and activation stores, and the local        *)
(* cert-manager Certificate and Secret the passes read.                    *)
(***************************************************************************)
EXTENDS Integers, Sequences, FiniteSets, TLC

(***************************************************************************)
(* Bounds of the model                                                     *)
(***************************************************************************)
\* highest identifier the provider hands out to a created resource
MaxId == 6
\* largest number of non-matching entries that precede the interesting
\* entries of a remote inventory: with pages of 20 they fall on the third page
MaxFill == 41

\* largest number of calls of one cleanup loop that the provider refuses
MaxFailingCalls == 2

(***************************************************************************)
(* Program constants                                                       *)
(***************************************************************************)
defaultFastlyPageSize == 20
\* ctx.SetRequeue(30 * time.Second) of a subject that is not ready
NotReadyRequeueSeconds == 30

Syncs == {"s1", "s2"}
CertNames == {"ca", "cb"}

VARIABLES
    \* ---- the shared Logic object (logic.go:63-74)
    SubjectReadyForReconciliation,
    ObservedState,
    HackLocal,                \* Config.HackFastlyCertificateSyncLocalReconciliation
    \* ---- the Fastly provider
    fastlyKeys,               \* sequence of [id, sha1]
    fastlyCerts,              \* sequence of [id, name, serial, domains, pub]
    fastlyActs,               \* sequence of [id, cert, domain, config]
    nextId,
    \* ---- the cluster: Certificates and their Secrets, and the SyncRequests
    localCert,                \* certificate name -> Certificate and Secret
    subject,                  \* sync -> [CertificateName, TLSConfigurationIds]
    \* ---- one reconciliation pass per SyncRequest
    pc,                       \* position of the pass
    requeue,                  \* <<>> or <<seconds>>: what ctx.SetRequeue was given
    err,                      \* "none", "observe", "panic", or the text ApplyUnmanaged wrapped its error with
    action,                   \* branch ApplyUnmanaged took in this pass
    calls,                    \* remote calls of this pass, in order
    callItems,                \* what the mutating calls of this pass were given, in call order
    errCause,                 \* "" or the text of the error ApplyUnmanaged wrapped
    status,                   \* sync -> Status written by FillStatus
    \* ---- the scheduler
    MaxConcurrentReconciles,
    \* ---- history
    snap,                     \* sync -> what its ObserveResources left in Logic
    stale,                    \* sync -> Logic fields still holding a value written before this pass began
    matched                   \* sync -> the remote certificate the certificate step of its pass matched, or <<>>

logicVars == <<SubjectReadyForReconciliation, ObservedState>>
remoteVars == <<fastlyKeys, fastlyCerts, fastlyActs, nextId>>
localVars == <<localCert, subject, HackLocal>>
histVars == <<snap, stale, matched>>
vars == <<SubjectReadyForReconciliation, ObservedState, HackLocal,
          fastlyKeys, fastlyCerts, fastlyActs, nextId, localCert, subject,
          pc, requeue, err, action, calls, status, callItems, errCause, MaxConcurrentReconciles,
          snap, stale, matched>>

(***************************************************************************)
(* Small helpers                                                           *)
(***************************************************************************)
Min(a, b) == IF a < b THEN a ELSE b

Range(f) == {f[i] : i \in DOMAIN f}

SelectIdx(seq, Test(_)) == {i \in 1..Len(seq) : Test(seq[i])}

\* the elements of seq at the positions of idxs, in order
RECURSIVE SubSeqAt(_, _, _)
SubSeqAt(seq, idxs, i) ==
    IF i > Len(seq) THEN <<>>
    ELSE (IF i \in idxs THEN <<seq[i]>> ELSE <<>>) \o SubSeqAt(seq, idxs, i + 1)

\* all orders in which the elements of a finite set can be listed
RECURSIVE Orders(_)
Orders(S) ==
    IF S = {} THEN {<<>>}
    ELSE UNION {{<<x>> \o o : o \in Orders(S \ {x})} : x \in S}

Repeat(x, n) == [i \in 1..n |-> x]

\* the subsets of S with at most k elements
RECURSIVE SubsetsUpTo(_, _)
SubsetsUpTo(S, k) ==
    IF k = 0 THEN {{}}
    ELSE LET prev == SubsetsUpTo(S, k - 1)
         IN  prev \cup {q \cup {x} : q \in prev, x \in S}

LogicFields == {"SubjectReadyForReconciliation", "PrivateKeyUploaded", "CertificateStatus",
                "MissingTLSActivationData", "ExtraTLSActivationIDs", "UnusedPrivateKeyIDs"}

(***************************************************************************)
(* Types of logic.go                                                       *)
(***************************************************************************)
CertificateStatusMissing == "Missing"
CertificateStatusStale == "Stale"
CertificateStatusSynced == "Synced"

\* ObservedState{} : the zero value
ZeroObservedState ==
    [PrivateKeyUploaded |-> FALSE,
     CertificateStatus |-> "",
     UnusedPrivateKeyIDs |-> <<>>,
     MissingTLSActivationData |-> <<>>,
     ExtraTLSActivationIDs |-> <<>>]

TLSActivationData(cert, config, domain) ==
    [Certificate |-> cert, Configuration |-> config, Domain |-> domain]

(***************************************************************************)
(* Key material (helper.go)                                                *)
(***************************************************************************)
\* tls.key holds "keyA" or "keyB" (two RSA keys), "garbage" (bytes that are
\* no PEM block) or is "absent"; tls.crt holds a leaf certificate "crtA111",
\* "crtA222", "crtB222" (key and serial), "garbage" or is "absent"; ca.crt of
\* a local issuer holds the root certificate (RootBlock), is empty ("") or is
\* "absent"
RootBlock == "caroot"

\* the PEM blocks a value of the secret contributes to a blob: empty bytes
\* contribute none
Bytes(value) == IF value = "" THEN <<>> ELSE <<value>>

\* getPublicKeySHA1FromPEM: [ok, sha1] ; an error for bytes that hold no RSA key
getPublicKeySHA1FromPEM(keyPEM) ==
    CASE keyPEM = "keyA" -> [ok |-> TRUE, sha1 |-> "sha-A"]
      [] keyPEM = "keyB" -> [ok |-> TRUE, sha1 |-> "sha-B"]
      [] OTHER -> [ok |-> FALSE, sha1 |-> ""]

\* x509.ParseCertificate(block.Bytes).SerialNumber.String() of a PEM block
ParseCertificateSerial(block) ==
    CASE block = "crtA111" -> [ok |-> TRUE, serial |-> "111"]
      [] block = "crtA222" -> [ok |-> TRUE, serial |-> "222"]
      [] block = "crtB222" -> [ok |-> TRUE, serial |-> "222"]
      [] block = RootBlock -> [ok |-> TRUE, serial |-> "999"]
      [] OTHER -> [ok |-> FALSE, serial |-> ""]

\* the public key a leaf certificate was issued for, as the provider sees it
CertificatePublicKey(block) ==
    CASE block = "crtA111" -> "sha-A"
      [] block = "crtA222" -> "sha-A"
      [] block = "crtB222" -> "sha-B"
      [] OTHER -> ""

\* the domains the provider derives from a certificate of that name
CertificateDomains(name) ==
    IF name = "ca" THEN <<"d1", "d2">> ELSE <<"d3">>

(***************************************************************************)
(* The cluster: Certificate and Secret of a SyncRequest                    *)
(***************************************************************************)
\* getCertificateAndTLSSecretFromSubject: the Certificate named by the spec
\* and the Secret it names; an error when either Get fails
getCertificateAndTLSSecretFromSubject(s) ==
    LET c == localCert[subject[s].CertificateName]
    IN  [ok |-> c.exists /\ c.secretExists,
         name |-> subject[s].CertificateName,
         ready |-> c.ready,
         key |-> c.key, crt |-> c.crt, ca |-> c.ca]

\* isSubjectReadyForReconciliation: both objects are readable and the
\* Certificate carries a condition Ready with status True
isSubjectReadyForReconciliation(s) ==
    LET got == getCertificateAndTLSSecretFromSubject(s)
    IN  got.ok /\ got.ready = "True"

\* getCertPEMForSecret: the leaf, followed by the root in local mode
getCertPEMForSecret(secret) ==
    IF secret.crt = "absent" THEN [ok |-> FALSE, blob |-> <<>>]
    ELSE IF HackLocal
         THEN IF secret.ca = "absent" THEN [ok |-> FALSE, blob |-> <<>>]
              ELSE [ok |-> TRUE, blob |-> Bytes(secret.crt) \o Bytes(secret.ca)]
         ELSE [ok |-> TRUE, blob |-> Bytes(secret.crt)]

\* pem.Decode: the first PEM block of the bytes; bytes that are no PEM
\* block are skipped
pemDecode(blob) ==
    LET blocks == SelectIdx(blob, LAMBDA b : b # "garbage")
    IN  IF blocks = {} THEN [ok |-> FALSE, block |-> ""]
        ELSE [ok |-> TRUE, block |-> blob[CHOOSE i \in blocks : \A j \in blocks : i <= j]]

(***************************************************************************)
(* The provider's paginated listings                                       *)
(***************************************************************************)
\* one page of an inventory, as the provider cuts it
FastlyPage(inv, pageNumber, pageSize) ==
    SubSeq(inv, (pageNumber - 1) * pageSize + 1, Min(pageNumber * pageSize, Len(inv)))

\* variant of allPrivateKeys: a listing that asks for the first page only
allPrivateKeysFirstPage(inv, pageNumber) ==
    [items |-> FastlyPage(inv, pageNumber, defaultFastlyPageSize), requests |-> 1]

\* variant of allPrivateKeys: the loop goes on until a page comes back empty
RECURSIVE allPrivateKeysUntilEmpty(_, _)
allPrivateKeysUntilEmpty(inv, pageNumber) ==
    LET privateKeys == FastlyPage(inv, pageNumber, defaultFastlyPageSize)
    IN  IF Len(privateKeys) = 0
        THEN [items |-> privateKeys, requests |-> 1]
        ELSE LET rest == allPrivateKeysUntilEmpty(inv, pageNumber + 1)
             IN  [items |-> privateKeys \o rest.items, requests |-> 1 + rest.requests]

\* the loop of getFastlyPrivateKeyExists over ListPrivateKeys
RECURSIVE allPrivateKeys(_, _)
allPrivateKeys(inv, pageNumber) ==
    LET privateKeys == FastlyPage(inv, pageNumber, defaultFastlyPageSize)
    IN  IF Len(privateKeys) < defaultFastlyPageSize
        THEN [items |-> privateKeys, requests |-> 1]
        ELSE LET rest == allPrivateKeys(inv, pageNumber + 1)
             IN  [items |-> privateKeys \o rest.items, requests |-> 1 + rest.requests]

\* variant of allCerts: a listing that asks for the first page only
allCertsFirstPage(inv, pageNumber) ==
    [items |-> FastlyPage(inv, pageNumber, defaultFastlyPageSize), requests |-> 1]

\* the loop of getFastlyCertificateMatchingSubject over ListCustomTLSCertificates
RECURSIVE allCerts(_, _)
allCerts(inv, pageNumber) ==
    LET certs == FastlyPage(inv, pageNumber, defaultFastlyPageSize)
    IN  IF Len(certs) < defaultFastlyPageSize
        THEN [items |-> certs, requests |-> 1]
        ELSE LET rest == allCerts(inv, pageNumber + 1)
             IN  [items |-> certs \o rest.items, requests |-> 1 + rest.requests]

\* the loop of getFastlyDomainAndConfigurationToActivationMap over ListTLSActivations
RECURSIVE allActivations(_, _)
allActivations(inv, pageNumber) ==
    LET activations == FastlyPage(inv, pageNumber, defaultFastlyPageSize)
    IN  IF Len(activations) < defaultFastlyPageSize
        THEN [items |-> activations, requests |-> 1]
        ELSE LET rest == allActivations(inv, pageNumber + 1)
             IN  [items |-> activations \o rest.items, requests |-> 1 + rest.requests]

\* the provider's FilterTLSCertificateID
ActivationsOfCertificate(certId) ==
    SubSeqAt(fastlyActs, SelectIdx(fastlyActs, LAMBDA a : a.cert = certId), 1)

\* the provider's FilterInUse=false: keys no certificate was issued for
KeysNotInUse ==
    SubSeqAt(fastlyKeys,
             SelectIdx(fastlyKeys, LAMBDA k : \A i \in 1..Len(fastlyCerts) : fastlyCerts[i].pub # k.sha1),
             1)

(***************************************************************************)
(* Observation (fastly.go)                                                 *)
(***************************************************************************)
\* getFastlyPrivateKeyExists
getFastlyPrivateKeyExists(s, listFails) ==
    LET secret == getCertificateAndTLSSecretFromSubject(s)
    IN  IF ~secret.ok \/ secret.key = "absent"
        THEN [ok |-> FALSE, exists |-> FALSE, requests |-> 0]
        ELSE IF listFails
        THEN [ok |-> FALSE, exists |-> FALSE, requests |-> 1]
        ELSE LET all == allPrivateKeys(fastlyKeys, 1)
                 publicKeySHA1 == getPublicKeySHA1FromPEM(secret.key)
             IN  IF ~publicKeySHA1.ok
                 THEN [ok |-> FALSE, exists |-> FALSE, requests |-> all.requests]
                 ELSE [ok |-> TRUE,
                       exists |-> \E i \in 1..Len(all.items) :
                                      all.items[i].sha1 = publicKeySHA1.sha1,
                       requests |-> all.requests]

\* getFastlyCertificateMatchingSubject: the first listed certificate with the
\* name of the subject's Certificate; found = FALSE stands for the nil result
getFastlyCertificateMatchingSubject(s, listFails) ==
    IF ~localCert[subject[s].CertificateName].exists
    THEN [ok |-> FALSE, found |-> FALSE, cert |-> <<>>, requests |-> 0]
    ELSE IF listFails
    THEN [ok |-> FALSE, found |-> FALSE, cert |-> <<>>, requests |-> 1]
    ELSE LET all == allCerts(fastlyCerts, 1)
             hits == SelectIdx(all.items, LAMBDA c : c.name = subject[s].CertificateName)
         IN  IF hits = {}
             THEN [ok |-> TRUE, found |-> FALSE, cert |-> <<>>, requests |-> all.requests]
             ELSE [ok |-> TRUE, found |-> TRUE,
                   cert |-> all.items[CHOOSE i \in hits : \A j \in hits : i <= j],
                   requests |-> all.requests]

\* isFastlyCertificateStale
isFastlyCertificateStale(s, fastlyCertificate) ==
    LET secret == getCertificateAndTLSSecretFromSubject(s)
        certPEM == getCertPEMForSecret(secret)
        block == pemDecode(certPEM.blob)
        cert == ParseCertificateSerial(block.block)
    IN  IF ~secret.ok \/ ~certPEM.ok \/ ~block.ok \/ ~cert.ok
        THEN [ok |-> FALSE, stale |-> FALSE]
        ELSE [ok |-> TRUE, stale |-> fastlyCertificate.serial # cert.serial]

\* getFastlyCertificateStatus
getFastlyCertificateStatus(s, listFails) ==
    LET m == getFastlyCertificateMatchingSubject(s, listFails)
    IN  IF ~m.ok THEN [ok |-> FALSE, status |-> "", requests |-> m.requests]
        ELSE IF ~m.found
        THEN [ok |-> TRUE, status |-> CertificateStatusMissing, requests |-> m.requests]
        ELSE LET st == isFastlyCertificateStale(s, m.cert)
             IN  IF ~st.ok THEN [ok |-> FALSE, status |-> "", requests |-> m.requests]
                 ELSE IF st.stale
                 THEN [ok |-> TRUE, status |-> CertificateStatusStale, requests |-> m.requests]
                 ELSE [ok |-> TRUE, status |-> CertificateStatusSynced, requests |-> m.requests]

\* getFastlyDomainAndConfigurationToActivationMap: (domain, configuration) ->
\* activation; a later activation of the listing replaces an earlier one of
\* the same pair
getFastlyDomainAndConfigurationToActivationMap(allActs) ==
    LET pairs == {<<allActs[i].domain, allActs[i].config>> : i \in 1..Len(allActs)}
        last(p) == CHOOSE i \in 1..Len(allActs) :
                       /\ <<allActs[i].domain, allActs[i].config>> = p
                       /\ \A j \in 1..Len(allActs) :
                              <<allActs[j].domain, allActs[j].config>> = p => j <= i
    IN  [p \in pairs |-> allActs[last(p)].id]

\* the double loop of getFastlyTLSActivationState over the certificate's
\* domains and the spec's configuration ids, from desired pair k on:
\* remaining is the set of map keys not yet deleted
RECURSIVE walkDesired(_, _, _, _, _)
walkDesired(fastlyCertificate, configIds, k, remaining, missing) ==
    IF k > Len(fastlyCertificate.domains) * Len(configIds)
    THEN [missing |-> missing, remaining |-> remaining]
    ELSE LET domain == fastlyCertificate.domains[((k - 1) \div Len(configIds)) + 1]
             configID == configIds[((k - 1) % Len(configIds)) + 1]
         IN  IF <<domain, configID>> \notin remaining
             THEN walkDesired(fastlyCertificate, configIds, k + 1, remaining,
                              Append(missing, TLSActivationData(fastlyCertificate.id, configID, domain)))
             ELSE walkDesired(fastlyCertificate, configIds, k + 1,
                              remaining \ {<<domain, configID>>}, missing)

\* getFastlyTLSActivationState; extra is the set of ids left in the map, which
\* the final range over the map lists in an order of Go's choosing.  A nil
\* certificate is dereferenced (cert.ID): the call panics.
getFastlyTLSActivationState(s, certListFails, actListFails) ==
    LET m == getFastlyCertificateMatchingSubject(s, certListFails)
        none == [ok |-> FALSE, panic |-> FALSE, missing |-> <<>>, extra |-> {},
                 certRequests |-> m.requests, actRequests |-> 0]
    IN  IF ~m.ok THEN none
        ELSE IF ~m.found THEN [none EXCEPT !.panic = TRUE]
        ELSE IF actListFails THEN [none EXCEPT !.actRequests = 1]
        ELSE LET all == allActivations(ActivationsOfCertificate(m.cert.id), 1)
                 map == getFastlyDomainAndConfigurationToActivationMap(all.items)
                 w == walkDesired(m.cert, subject[s].TLSConfigurationIds, 1, DOMAIN map, <<>>)
             IN  [ok |-> TRUE, panic |-> FALSE,
                  missing |-> w.missing,
                  extra |-> {map[p] : p \in w.remaining},
                  certRequests |-> m.requests, actRequests |-> all.requests]

\* the page size the provider applies to a listing that names none
FastlyApiDefaultPageSize == defaultFastlyPageSize

\* getFastlyUnusedPrivateKeyIDs: one ListPrivateKeys call with FilterInUse=false
getFastlyUnusedPrivateKeyIDs(listFails) ==
    IF listFails THEN [ok |-> FALSE, ids |-> <<>>]
    ELSE LET privateKeys == FastlyPage(KeysNotInUse, 1, FastlyApiDefaultPageSize)
         IN  [ok |-> TRUE, ids |-> [i \in 1..Len(privateKeys) |-> privateKeys[i].id]]

(***************************************************************************)
(* Status derivation (status.go)                                           *)
(***************************************************************************)
Condition(type, st, reason) == [Type |-> type, Status |-> st, Reason |-> reason]

observePrivateKeyReadyCondition(obs) ==
    IF obs.PrivateKeyUploaded
    THEN Condition("PrivateKeyReady", "True", "PrivateKeyUploaded")
    ELSE Condition("PrivateKeyReady", "False", "PrivateKeyMissing")

\* variant of observeCertificateReadyCondition: a status that is none of the
\* three is reported as a missing certificate
observeCertificateReadyConditionDefaultMissing(obs) ==
    CASE obs.CertificateStatus = CertificateStatusSynced ->
             Condition("CertificateReady", "True", "CertificateSynced")
      [] obs.CertificateStatus = CertificateStatusStale ->
             Condition("CertificateReady", "False", "CertificateStale")
      [] OTHER -> Condition("CertificateReady", "False", "CertificateMissing")

\* variant of observeTLSActivationReadyCondition: extra activations are
\* reported before missing ones
observeTLSActivationReadyConditionExtraFirst(obs) ==
    IF Len(obs.ExtraTLSActivationIDs) > 0
    THEN Condition("TLSActivationReady", "False", "TLSActivationsExtra")
    ELSE IF Len(obs.MissingTLSActivationData) > 0
    THEN Condition("TLSActivationReady", "False", "TLSActivationsMissing")
    ELSE Condition("TLSActivationReady", "True", "TLSActivationsSynced")

observeCertificateReadyCondition(obs) ==
    CASE obs.CertificateStatus = CertificateStatusSynced ->
             Condition("CertificateReady", "True", "CertificateSynced")
      [] obs.CertificateStatus = CertificateStatusStale ->
             Condition("CertificateReady", "False", "CertificateStale")
      [] obs.CertificateStatus = CertificateStatusMissing ->
             Condition("CertificateReady", "False", "CertificateMissing")
      [] OTHER -> Condition("CertificateReady", "Unknown", "CertificateStatusUnknown")

\* variant of observeTLSActivationReadyCondition: extra activations are not looked at
observeTLSActivationReadyConditionMissingOnly(obs) ==
    IF Len(obs.MissingTLSActivationData) > 0
    THEN Condition("TLSActivationReady", "False", "TLSActivationsMissing")
    ELSE Condition("TLSActivationReady", "True", "TLSActivationsSynced")

observeTLSActivationReadyCondition(obs) ==
    IF Len(obs.MissingTLSActivationData) > 0
    THEN Condition("TLSActivationReady", "False", "TLSActivationsMissing")
    ELSE IF Len(obs.ExtraTLSActivationIDs) > 0
    THEN Condition("TLSActivationReady", "False", "TLSActivationsExtra")
    ELSE Condition("TLSActivationReady", "True", "TLSActivationsSynced")

observeCleanupRequiredCondition(obs) ==
    IF Len(obs.UnusedPrivateKeyIDs) > 0
    THEN Condition("CleanupRequired", "True", "UnusedPrivateKeysFound")
    ELSE Condition("CleanupRequired", "False", "NoCleanupNeeded")

\* variant of observeReadyCondition: pending cleanup does not keep the condition from True
observeReadyConditionIgnoringCleanup(obs) ==
    IF /\ obs.PrivateKeyUploaded
       /\ obs.CertificateStatus = CertificateStatusSynced
       /\ Len(obs.MissingTLSActivationData) = 0
       /\ Len(obs.ExtraTLSActivationIDs) = 0
    THEN Condition("Ready", "True", "FastlySyncComplete")
    ELSE Condition("Ready", "False", "FastlySyncIncomplete")

observeReadyCondition(obs) ==
    IF /\ obs.PrivateKeyUploaded
       /\ obs.CertificateStatus = CertificateStatusSynced
       /\ Len(obs.MissingTLSActivationData) = 0
       /\ Len(obs.ExtraTLSActivationIDs) = 0
       /\ Len(obs.UnusedPrivateKeyIDs) = 0
    THEN Condition("Ready", "True", "FastlySyncComplete")
    ELSE Condition("Ready", "False", "FastlySyncIncomplete")

\* variant of statusReady: pending cleanup does not keep Ready from being true
statusReadyIgnoringCleanup(obs) ==
    /\ obs.PrivateKeyUploaded
    /\ obs.CertificateStatus = CertificateStatusSynced
    /\ Len(obs.MissingTLSActivationData) = 0
    /\ Len(obs.ExtraTLSActivationIDs) = 0

\* res.Ready of FillStatus
statusReady(obs) ==
    /\ obs.PrivateKeyUploaded
    /\ obs.CertificateStatus = CertificateStatusSynced
    /\ Len(obs.MissingTLSActivationData) = 0
    /\ Len(obs.ExtraTLSActivationIDs) = 0
    /\ Len(obs.UnusedPrivateKeyIDs) = 0

\* the Status FillStatus and FillStatusConditions leave on the subject
filledStatus(obs) ==
    [Ready |-> statusReady(obs),
     Conditions |-> <<observePrivateKeyReadyCondition(obs),
                      observeCertificateReadyCondition(obs),
                      observeTLSActivationReadyCondition(obs),
                      observeCleanupRequiredCondition(obs),
                      observeReadyCondition(obs)>>]

NoStatus == [Ready |-> FALSE, Conditions |-> <<>>]

(***************************************************************************)
(* Action selection (logic.go, ApplyUnmanaged)                             *)
(***************************************************************************)
\* variant of selectAction: the certificate is looked at before the private key
selectActionCertificateFirst(ready, obs) ==
    IF ~ready THEN "skipped"
    ELSE IF obs.CertificateStatus = CertificateStatusMissing THEN "createCertificate"
    ELSE IF ~obs.PrivateKeyUploaded THEN "createPrivateKey"
    ELSE IF obs.CertificateStatus = CertificateStatusStale THEN "updateCertificate"
    ELSE IF Len(obs.MissingTLSActivationData) > 0 THEN "createActivations"
    ELSE IF Len(obs.ExtraTLSActivationIDs) > 0 THEN "deleteActivations"
    ELSE IF Len(obs.UnusedPrivateKeyIDs) > 0 THEN "deleteUnusedKeys"
    ELSE "none"

\* variant of selectAction: the readiness flag is not consulted
selectActionNoSkip(ready, obs) ==
    IF ~obs.PrivateKeyUploaded THEN "createPrivateKey"
    ELSE IF obs.CertificateStatus = CertificateStatusMissing THEN "createCertificate"
    ELSE IF obs.CertificateStatus = CertificateStatusStale THEN "updateCertificate"
    ELSE IF Len(obs.MissingTLSActivationData) > 0 THEN "createActivations"
    ELSE IF Len(obs.ExtraTLSActivationIDs) > 0 THEN "deleteActivations"
    ELSE IF Len(obs.UnusedPrivateKeyIDs) > 0 THEN "deleteUnusedKeys"
    ELSE "none"

\* the branch ApplyUnmanaged takes for what Logic holds
selectAction(ready, obs) ==
    IF ~ready THEN "skipped"
    ELSE IF ~obs.PrivateKeyUploaded THEN "createPrivateKey"
    ELSE IF obs.CertificateStatus = CertificateStatusMissing THEN "createCertificate"
    ELSE IF obs.CertificateStatus = CertificateStatusStale THEN "updateCertificate"
    ELSE IF Len(obs.MissingTLSActivationData) > 0 THEN "createActivations"
    ELSE IF Len(obs.ExtraTLSActivationIDs) > 0 THEN "deleteActivations"
    ELSE IF Len(obs.UnusedPrivateKeyIDs) > 0 THEN "deleteUnusedKeys"
    ELSE "none"

\* variant of requeueAfter: the cleanup branch returns without asking for a re-run
requeueAfterCleanupSilent(act, before) ==
    IF act \in {"createPrivateKey", "createCertificate", "updateCertificate",
                "createActivations", "deleteActivations"}
    THEN <<0>>
    ELSE before

\* variant of requeueAfter: a pass that found nothing to do asks for the re-run too
requeueAfterAlways(act, before) ==
    IF act = "skipped" THEN before ELSE <<0>>

\* what a branch that returned nil passed to ctx.SetRequeue
requeueAfter(act, before) ==
    IF act \in {"createPrivateKey", "createCertificate", "updateCertificate",
                "createActivations", "deleteActivations", "deleteUnusedKeys"}
    THEN <<0>>
    ELSE before

(***************************************************************************)
(* One reconciliation pass: ObserveResources (logic.go:170-222)            *)
(***************************************************************************)
\* variant of ObserveResourcesReset: the unused-key list survives the reset
ObserveResourcesResetKeeping(ready, obs) ==
    [ready |-> FALSE,
     obs |-> [ZeroObservedState EXCEPT !.UnusedPrivateKeyIDs = obs.UnusedPrivateKeyIDs],
     written |-> LogicFields \ {"UnusedPrivateKeyIDs"}]

\* variant of ObserveResourcesReset: only the readiness flag is reset
ObserveResourcesResetFlagOnly(ready, obs) ==
    [ready |-> FALSE, obs |-> obs, written |-> {"SubjectReadyForReconciliation"}]

\* lines 176-179: what the reset leaves in Logic, and the fields it wrote
ObserveResourcesReset(ready, obs) ==
    [ready |-> FALSE, obs |-> ZeroObservedState, written |-> LogicFields]

LogicSnapshot(ready, obs) == [ready |-> ready, obs |-> obs]

NoSnapshot == [ready |-> FALSE, obs |-> ZeroObservedState]

\* fields written by some pass no longer hold a value from before any pass
Wrote(fields) == [t \in Syncs |-> stale[t] \ fields]

\* variant of AbortPass: the error is noted and the pass goes on to
\* ApplyUnmanaged with what the observation has filled in so far
AbortPassToApply(s, kind) ==
    /\ pc' = [pc EXCEPT ![s] = "apply"]
    /\ err' = [err EXCEPT ![s] = kind]

\* an observation step returned an error (or panicked): the pass ends there
AbortPass(s, kind) ==
    /\ pc' = [pc EXCEPT ![s] = "done"]
    /\ err' = [err EXCEPT ![s] = kind]

ObserveResourcesBegin(s) ==
    /\ pc[s] = "idle"
    /\ Cardinality({t \in Syncs : pc[t] # "idle"}) < MaxConcurrentReconciles
    /\ LET r == ObserveResourcesReset(SubjectReadyForReconciliation, ObservedState)
       IN  /\ SubjectReadyForReconciliation' = r.ready
           /\ ObservedState' = r.obs
           /\ stale' = [t \in Syncs |-> IF t = s THEN LogicFields \ r.written
                                        ELSE stale[t] \ r.written]
    /\ pc' = [pc EXCEPT ![s] = "gate"]
    /\ requeue' = [requeue EXCEPT ![s] = <<>>]
    /\ err' = [err EXCEPT ![s] = "none"]
    /\ action' = [action EXCEPT ![s] = ""]
    /\ calls' = [calls EXCEPT ![s] = <<>>]
    /\ callItems' = [callItems EXCEPT ![s] = <<>>]
    /\ errCause' = [errCause EXCEPT ![s] = ""]
    /\ snap' = [snap EXCEPT ![s] = NoSnapshot]
    /\ matched' = [matched EXCEPT ![s] = <<>>]
    /\ UNCHANGED <<remoteVars, localVars, status, MaxConcurrentReconciles>>

\* variant of ObserveResourcesGate: the gate looks at the Certificate's Ready
\* condition only, not at whether its Secret can be read
ObserveResourcesGateCertificateOnly(s) ==
    /\ pc[s] = "gate"
    /\ LET c == localCert[subject[s].CertificateName]
       IN  IF c.exists /\ c.ready = "True"
           THEN /\ SubjectReadyForReconciliation' = TRUE
                /\ stale' = Wrote({"SubjectReadyForReconciliation"})
                /\ pc' = [pc EXCEPT ![s] = "obsKey"]
                /\ UNCHANGED <<requeue, snap>>
           ELSE /\ requeue' = [requeue EXCEPT ![s] = <<NotReadyRequeueSeconds>>]
                /\ pc' = [pc EXCEPT ![s] = "apply"]
                /\ snap' = [snap EXCEPT ![s] =
                               LogicSnapshot(SubjectReadyForReconciliation, ObservedState)]
                /\ UNCHANGED <<SubjectReadyForReconciliation, stale>>
    /\ UNCHANGED <<ObservedState, remoteVars, localVars, err, action, calls, status,
                   callItems, errCause, matched, MaxConcurrentReconciles>>

\* lines 181-189: the readiness gate
ObserveResourcesGate(s) ==
    /\ pc[s] = "gate"
    /\ IF isSubjectReadyForReconciliation(s)
       THEN /\ SubjectReadyForReconciliation' = TRUE
            /\ stale' = Wrote({"SubjectReadyForReconciliation"})
            /\ pc' = [pc EXCEPT ![s] = "obsKey"]
            /\ UNCHANGED <<requeue, snap>>
       ELSE /\ requeue' = [requeue EXCEPT ![s] = <<NotReadyRequeueSeconds>>]
            /\ pc' = [pc EXCEPT ![s] = "apply"]
            /\ snap' = [snap EXCEPT ![s] =
                           LogicSnapshot(SubjectReadyForReconciliation, ObservedState)]
            /\ UNCHANGED <<SubjectReadyForReconciliation, stale>>
    /\ UNCHANGED <<ObservedState, remoteVars, localVars, err, action, calls, status,
                   callItems, errCause, matched, MaxConcurrentReconciles>>

\* variant of ObservePrivateKey: a key that is found not to be there is
\* uploaded by the observation step itself
ObservePrivateKeyUploading(s) ==
    /\ pc[s] = "obsKey"
    /\ \E listFails \in BOOLEAN :
         LET r == getFastlyPrivateKeyExists(s, listFails)
             secret == getCertificateAndTLSSecretFromSubject(s)
             upload == r.ok /\ ~r.exists /\ nextId <= MaxId
         IN  /\ calls' = [calls EXCEPT ![s] =
                             @ \o Repeat("ListPrivateKeys", r.requests)
                               \o (IF upload THEN <<"CreatePrivateKey">> ELSE <<>>)]
             /\ IF upload
                THEN /\ fastlyKeys' = Append(fastlyKeys,
                                             [id |-> nextId,
                                              sha1 |-> getPublicKeySHA1FromPEM(secret.key).sha1])
                     /\ nextId' = nextId + 1
                ELSE UNCHANGED <<fastlyKeys, nextId>>
             /\ IF r.ok
                THEN /\ ObservedState' = [ObservedState EXCEPT !.PrivateKeyUploaded = r.exists]
                     /\ stale' = Wrote({"PrivateKeyUploaded"})
                     /\ pc' = [pc EXCEPT ![s] = "obsCert"]
                     /\ UNCHANGED err
                ELSE /\ AbortPass(s, "observe")
                     /\ UNCHANGED <<ObservedState, stale>>
    /\ UNCHANGED <<SubjectReadyForReconciliation, fastlyCerts, fastlyActs, localVars, requeue,
                   action, status, callItems, errCause, matched, MaxConcurrentReconciles, snap>>

\* lines 193-197
ObservePrivateKey(s) ==
    /\ pc[s] = "obsKey"
    /\ \E listFails \in BOOLEAN :
         LET r == getFastlyPrivateKeyExists(s, listFails)
         IN  /\ calls' = [calls EXCEPT ![s] = @ \o Repeat("ListPrivateKeys", r.requests)]
             /\ IF r.ok
                THEN /\ ObservedState' = [ObservedState EXCEPT !.PrivateKeyUploaded = r.exists]
                     /\ stale' = Wrote({"PrivateKeyUploaded"})
                     /\ pc' = [pc EXCEPT ![s] = "obsCert"]
                     /\ UNCHANGED err
                ELSE /\ AbortPass(s, "observe")
                     /\ UNCHANGED <<ObservedState, stale>>
    /\ UNCHANGED <<SubjectReadyForReconciliation, remoteVars, localVars, requeue, action,
                   status, callItems, errCause, matched, MaxConcurrentReconciles, snap>>

\* variant of ObserveCertificate: a failed certificate step is noted and the
\* observation goes on with the activations
ObserveCertificateContinuing(s) ==
    /\ pc[s] = "obsCert"
    /\ \E listFails \in BOOLEAN :
         LET r == getFastlyCertificateStatus(s, listFails)
         IN  /\ calls' = [calls EXCEPT ![s] = @ \o Repeat("ListCustomTLSCertificates", r.requests)]
             /\ matched' = [matched EXCEPT ![s] =
                                getFastlyCertificateMatchingSubject(s, listFails).cert]
             /\ pc' = [pc EXCEPT ![s] = "obsAct"]
             /\ IF r.ok
                THEN /\ ObservedState' = [ObservedState EXCEPT !.CertificateStatus = r.status]
                     /\ stale' = Wrote({"CertificateStatus"})
                     /\ UNCHANGED err
                ELSE /\ err' = [err EXCEPT ![s] = "observe"]
                     /\ UNCHANGED <<ObservedState, stale>>
    /\ UNCHANGED <<SubjectReadyForReconciliation, remoteVars, localVars, requeue, action,
                   status, callItems, errCause, MaxConcurrentReconciles, snap>>

\* lines 200-204
ObserveCertificate(s) ==
    /\ pc[s] = "obsCert"
    /\ \E listFails \in BOOLEAN :
         LET r == getFastlyCertificateStatus(s, listFails)
         IN  /\ calls' = [calls EXCEPT ![s] = @ \o Repeat("ListCustomTLSCertificates", r.requests)]
             /\ matched' = [matched EXCEPT ![s] =
                                getFastlyCertificateMatchingSubject(s, listFails).cert]
             /\ IF r.ok
                THEN /\ ObservedState' = [ObservedState EXCEPT !.CertificateStatus = r.status]
                     /\ stale' = Wrote({"CertificateStatus"})
                     /\ pc' = [pc EXCEPT ![s] = "obsAct"]
                     /\ UNCHANGED err
                ELSE /\ AbortPass(s, "observe")
                     /\ UNCHANGED <<ObservedState, stale>>
    /\ UNCHANGED <<SubjectReadyForReconciliation, remoteVars, localVars, requeue, action,
                   status, callItems, errCause, MaxConcurrentReconciles, snap>>

\* lines 207-212
ObserveActivations(s) ==
    /\ pc[s] = "obsAct"
    /\ \E certListFails \in BOOLEAN, actListFails \in BOOLEAN :
         LET r == getFastlyTLSActivationState(s, certListFails, actListFails)
         IN  /\ calls' = [calls EXCEPT ![s] =
                             @ \o Repeat("ListCustomTLSCertificates", r.certRequests)
                               \o Repeat("ListTLSActivations", r.actRequests)]
             /\ IF r.ok
                THEN /\ \E extraTLSActivationIDs \in Orders(r.extra) :
                          ObservedState' = [ObservedState EXCEPT
                              !.MissingTLSActivationData = r.missing,
                              !.ExtraTLSActivationIDs = extraTLSActivationIDs]
                     /\ stale' = Wrote({"MissingTLSActivationData", "ExtraTLSActivationIDs"})
                     /\ pc' = [pc EXCEPT ![s] = "obsUnused"]
                     /\ UNCHANGED err
                ELSE /\ AbortPass(s, IF r.panic THEN "panic" ELSE "observe")
                     /\ UNCHANGED <<ObservedState, stale>>
    /\ UNCHANGED <<SubjectReadyForReconciliation, remoteVars, localVars, requeue, action,
                   status, callItems, errCause, matched, MaxConcurrentReconciles, snap>>

\* variant of ObserveUnusedKeys: the step deletes the keys it lists
ObserveUnusedKeysClearing(s) ==
    /\ pc[s] = "obsUnused"
    /\ LET r == getFastlyUnusedPrivateKeyIDs(FALSE)
       IN  /\ calls' = [calls EXCEPT ![s] = Append(@, "ListPrivateKeys(FilterInUse=false)")
                                              \o Repeat("DeletePrivateKey", Len(r.ids))]
           /\ fastlyKeys' = SubSeqAt(fastlyKeys,
                               SelectIdx(fastlyKeys,
                                         LAMBDA k : \A i \in 1..Len(r.ids) : k.id # r.ids[i]), 1)
           /\ ObservedState' = [ObservedState EXCEPT !.UnusedPrivateKeyIDs = r.ids]
           /\ stale' = Wrote({"UnusedPrivateKeyIDs"})
           /\ pc' = [pc EXCEPT ![s] = "apply"]
           /\ snap' = [snap EXCEPT ![s] =
                          LogicSnapshot(SubjectReadyForReconciliation, ObservedState')]
    /\ UNCHANGED <<SubjectReadyForReconciliation, fastlyCerts, fastlyActs, nextId, localVars,
                   requeue, err, action, status, callItems, errCause, matched, MaxConcurrentReconciles>>

\* lines 215-221
ObserveUnusedKeys(s) ==
    /\ pc[s] = "obsUnused"
    /\ \E listFails \in BOOLEAN :
         LET r == getFastlyUnusedPrivateKeyIDs(listFails)
         IN  /\ calls' = [calls EXCEPT ![s] = Append(@, "ListPrivateKeys(FilterInUse=false)")]
             /\ IF r.ok
                THEN /\ ObservedState' = [ObservedState EXCEPT !.UnusedPrivateKeyIDs = r.ids]
                     /\ stale' = Wrote({"UnusedPrivateKeyIDs"})
                     /\ pc' = [pc EXCEPT ![s] = "apply"]
                     /\ snap' = [snap EXCEPT ![s] =
                                    LogicSnapshot(SubjectReadyForReconciliation, ObservedState')]
                     /\ UNCHANGED err
                ELSE /\ AbortPass(s, "observe")
                     /\ UNCHANGED <<ObservedState, stale, snap>>
    /\ UNCHANGED <<SubjectReadyForReconciliation, remoteVars, localVars, requeue, action,
                   status, callItems, errCause, matched, MaxConcurrentReconciles>>

(***************************************************************************)
(* One reconciliation pass: ApplyUnmanaged (logic.go:224-301)              *)
(***************************************************************************)
MutatingCalls == {"CreatePrivateKey", "CreateCustomTLSCertificate", "UpdateCustomTLSCertificate",
                  "CreateTLSActivation", "DeleteTLSActivation", "DeletePrivateKey"}

\* the provider holds at most one activation of a certificate per domain and configuration
NoDuplicateActivations(acts) ==
    \A i, j \in 1..Len(acts) :
        (acts[i].cert = acts[j].cert /\ acts[i].domain = acts[j].domain
            /\ acts[i].config = acts[j].config) => i = j

\* the text ApplyUnmanaged wraps the error of a branch with (fmt.Errorf)
ApplyError(act) ==
    CASE act = "createPrivateKey" -> "failed to create Fastly private key"
      [] act = "createCertificate" -> "failed to create Fastly certificate"
      [] act = "updateCertificate" -> "failed to update Fastly certificate"
      [] act = "createActivations" -> "failed to create Fastly TLS activations"
      [] act = "deleteActivations" -> "failed to delete Fastly TLS activations"
      [] OTHER -> "none"

\* the error the function of a branch returned ("" for nil)
Returned(s, text) == errCause' = [errCause EXCEPT ![s] = text]

\* variant of ApplyReturn: the re-run is asked for whether or not the branch failed
ApplyReturnRequeueOnError(s, act, ok, newCalls) ==
    /\ action' = [action EXCEPT ![s] = act]
    /\ calls' = [calls EXCEPT ![s] = @ \o newCalls]
    /\ requeue' = [requeue EXCEPT ![s] = requeueAfter(act, @)]
    /\ IF ok
       THEN /\ pc' = [pc EXCEPT ![s] = "status"]
            /\ UNCHANGED err
       ELSE AbortPass(s, ApplyError(act))

\* the branch returned: nil sets the requeue the branch asked for and lets the
\* pass go on to FillStatus, an error ends the pass
ApplyReturn(s, act, ok, newCalls) ==
    /\ action' = [action EXCEPT ![s] = act]
    /\ calls' = [calls EXCEPT ![s] = @ \o newCalls]
    /\ IF ok
       THEN /\ requeue' = [requeue EXCEPT ![s] = requeueAfter(act, @)]
            /\ pc' = [pc EXCEPT ![s] = "status"]
            /\ UNCHANGED err
       ELSE /\ AbortPass(s, ApplyError(act))
            /\ UNCHANGED requeue

\* createFastlyPrivateKey (fastly.go:79-101)
createFastlyPrivateKey(s, act) ==
    LET secret == getCertificateAndTLSSecretFromSubject(s)
    IN  IF ~secret.ok \/ secret.key = "absent"
        THEN /\ ApplyReturn(s, act, FALSE, <<>>)
             /\ Returned(s, IF ~secret.ok THEN "failed to get TLS secret from context"
                            ELSE "secret does not contain tls.key")
             /\ UNCHANGED remoteVars
        ELSE \E providerOk \in BOOLEAN :
               LET fp == getPublicKeySHA1FromPEM(secret.key)
                   accepted == providerOk /\ fp.ok /\ nextId <= MaxId
               IN  /\ IF accepted
                      THEN /\ fastlyKeys' = Append(fastlyKeys, [id |-> nextId, sha1 |-> fp.sha1])
                           /\ nextId' = nextId + 1
                      ELSE UNCHANGED <<fastlyKeys, nextId>>
                   /\ UNCHANGED <<fastlyCerts, fastlyActs>>
                   /\ ApplyReturn(s, act, accepted, <<"CreatePrivateKey">>)
                   /\ Returned(s, IF accepted THEN ""
                                  ELSE "failed to create Fastly private key")

\* createFastlyCertificate (fastly.go:172-194)
createFastlyCertificate(s, act) ==
    LET secret == getCertificateAndTLSSecretFromSubject(s)
        certPEM == getCertPEMForSecret(secret)
    IN  IF ~secret.ok \/ ~certPEM.ok
        THEN /\ ApplyReturn(s, act, FALSE, <<>>)
             /\ Returned(s, IF ~secret.ok THEN "failed to get TLS secret from context"
                            ELSE "failed to get CertPEM for Fastly certificate")
             /\ UNCHANGED remoteVars
        ELSE \E providerOk \in BOOLEAN :
               LET leaf == pemDecode(certPEM.blob)
                   parsed == ParseCertificateSerial(leaf.block)
                   accepted == providerOk /\ leaf.ok /\ parsed.ok /\ nextId <= MaxId
               IN  /\ IF accepted
                      THEN /\ fastlyCerts' = Append(fastlyCerts,
                                  [id |-> nextId, name |-> secret.name, serial |-> parsed.serial,
                                   domains |-> CertificateDomains(secret.name),
                                   pub |-> CertificatePublicKey(leaf.block)])
                           /\ nextId' = nextId + 1
                      ELSE UNCHANGED <<fastlyCerts, nextId>>
                   /\ UNCHANGED <<fastlyKeys, fastlyActs>>
                   /\ ApplyReturn(s, act, accepted, <<"CreateCustomTLSCertificate">>)
                   /\ Returned(s, IF accepted THEN ""
                                  ELSE "failed to create Fastly certificate")

\* variant of updateFastlyCertificate: the new blob is uploaded as one more
\* certificate and the existing one is left as it is
updateFastlyCertificateAppending(s, act) ==
    LET secret == getCertificateAndTLSSecretFromSubject(s)
        certPEM == getCertPEMForSecret(secret)
        leaf == pemDecode(certPEM.blob)
        parsed == ParseCertificateSerial(leaf.block)
        accepted == secret.ok /\ certPEM.ok /\ leaf.ok /\ parsed.ok /\ nextId <= MaxId
    IN  /\ IF accepted
           THEN /\ fastlyCerts' = Append(fastlyCerts,
                       [id |-> nextId, name |-> secret.name, serial |-> parsed.serial,
                        domains |-> CertificateDomains(secret.name),
                        pub |-> CertificatePublicKey(leaf.block)])
                /\ nextId' = nextId + 1
           ELSE UNCHANGED <<fastlyCerts, nextId>>
        /\ UNCHANGED <<fastlyKeys, fastlyActs>>
        /\ ApplyReturn(s, act, accepted, <<"UpdateCustomTLSCertificate">>)
        /\ Returned(s, IF accepted THEN "" ELSE "failed to update Fastly certificate")

\* variant of updateFastlyCertificate: a certificate that is no longer there
\* is taken as nothing to do
updateFastlyCertificateIgnoringAbsent(s, act) ==
    LET secret == getCertificateAndTLSSecretFromSubject(s)
        certPEM == getCertPEMForSecret(secret)
    IN  IF ~secret.ok \/ ~certPEM.ok
        THEN /\ ApplyReturn(s, act, FALSE, <<>>)
             /\ Returned(s, IF ~secret.ok THEN "failed to get TLS secret from context"
                            ELSE "failed to get CertPEM for Fastly certificate")
             /\ UNCHANGED remoteVars
        ELSE \E listFails \in BOOLEAN :
               LET m == getFastlyCertificateMatchingSubject(s, listFails)
                   listed == Repeat("ListCustomTLSCertificates", m.requests)
               IN  IF ~m.ok \/ ~m.found
                   THEN /\ ApplyReturn(s, act, m.ok, listed)
                        /\ Returned(s, IF ~m.ok
                                       THEN "failed to get Fastly certificate matching subject"
                                       ELSE "")
                        /\ UNCHANGED remoteVars
                   ELSE \E providerOk \in BOOLEAN :
                          LET leaf == pemDecode(certPEM.blob)
                              parsed == ParseCertificateSerial(leaf.block)
                              accepted == providerOk /\ leaf.ok /\ parsed.ok
                          IN  /\ IF accepted
                                 THEN fastlyCerts' =
                                        [i \in 1..Len(fastlyCerts) |->
                                           IF fastlyCerts[i].id = m.cert.id
                                           THEN [fastlyCerts[i] EXCEPT
                                                    !.serial = parsed.serial,
                                                    !.pub = CertificatePublicKey(leaf.block)]
                                           ELSE fastlyCerts[i]]
                                 ELSE UNCHANGED fastlyCerts
                              /\ UNCHANGED <<fastlyKeys, fastlyActs, nextId>>
                              /\ ApplyReturn(s, act, accepted,
                                             Append(listed, "UpdateCustomTLSCertificate"))
                              /\ Returned(s, IF accepted THEN ""
                                             ELSE "failed to update Fastly certificate")

\* updateFastlyCertificate (fastly.go:196-227)
updateFastlyCertificate(s, act) ==
    LET secret == getCertificateAndTLSSecretFromSubject(s)
        certPEM == getCertPEMForSecret(secret)
    IN  IF ~secret.ok \/ ~certPEM.ok
        THEN /\ ApplyReturn(s, act, FALSE, <<>>)
             /\ Returned(s, IF ~secret.ok THEN "failed to get TLS secret from context"
                            ELSE "failed to get CertPEM for Fastly certificate")
             /\ UNCHANGED remoteVars
        ELSE \E listFails \in BOOLEAN :
               LET m == getFastlyCertificateMatchingSubject(s, listFails)
                   listed == Repeat("ListCustomTLSCertificates", m.requests)
               IN  IF ~m.ok \/ ~m.found
                   THEN /\ ApplyReturn(s, act, FALSE, listed)
                        /\ Returned(s, IF ~m.ok
                                       THEN "failed to get Fastly certificate matching subject"
                                       ELSE "fastly certificate not found")
                        /\ UNCHANGED remoteVars
                   ELSE \E providerOk \in BOOLEAN :
                          LET leaf == pemDecode(certPEM.blob)
                              parsed == ParseCertificateSerial(leaf.block)
                              accepted == providerOk /\ leaf.ok /\ parsed.ok
                          IN  /\ IF accepted
                                 THEN fastlyCerts' =
                                        [i \in 1..Len(fastlyCerts) |->
                                           IF fastlyCerts[i].id = m.cert.id
                                           THEN [fastlyCerts[i] EXCEPT
                                                    !.serial = parsed.serial,
                                                    !.pub = CertificatePublicKey(leaf.block)]
                                           ELSE fastlyCerts[i]]
                                 ELSE UNCHANGED fastlyCerts
                              /\ UNCHANGED <<fastlyKeys, fastlyActs, nextId>>
                              /\ ApplyReturn(s, act, accepted,
                                             Append(listed, "UpdateCustomTLSCertificate"))
                              /\ Returned(s, IF accepted THEN ""
                                             ELSE "failed to update Fastly certificate")

\* variant of createMissingFastlyTLSActivations: the loop ends at the first
\* item the provider refuses
createMissingFastlyTLSActivationsStopAtFailure(s, act) ==
    LET items == ObservedState.MissingTLSActivationData
    IN  \E n \in 0..Len(items) :
          LET created == SubSeq(items, 1, n)
              attempted == Min(n + 1, Len(items))
              newActs == [j \in 1..Len(created) |->
                            [id |-> nextId + j - 1, cert |-> created[j].Certificate,
                             domain |-> created[j].Domain, config |-> created[j].Configuration]]
          IN  /\ nextId + Len(created) <= MaxId + 1
              /\ NoDuplicateActivations(fastlyActs \o newActs)
              /\ fastlyActs' = fastlyActs \o newActs
              /\ nextId' = nextId + Len(created)
              /\ UNCHANGED <<fastlyKeys, fastlyCerts>>
              /\ callItems' = [callItems EXCEPT ![s] =
                                   @ \o [j \in 1..attempted |->
                                            <<items[j].Domain, items[j].Configuration>>]]
              /\ ApplyReturn(s, act, n = Len(items),
                             Repeat("CreateTLSActivation", attempted))
              /\ Returned(s, IF n = Len(items) THEN ""
                             ELSE "failed to create TLS activations")

\* createMissingFastlyTLSActivations (fastly.go:339-358): one call per item,
\* okIdx are the items whose call the provider accepts
createMissingFastlyTLSActivations(s, act) ==
    LET items == ObservedState.MissingTLSActivationData
    IN  \E okIdx \in SUBSET (1..Len(items)) :
          LET created == SubSeqAt(items, okIdx, 1)
              newActs == [j \in 1..Len(created) |->
                            [id |-> nextId + j - 1, cert |-> created[j].Certificate,
                             domain |-> created[j].Domain, config |-> created[j].Configuration]]
          IN  /\ nextId + Len(created) <= MaxId + 1
              /\ NoDuplicateActivations(fastlyActs \o newActs)
              /\ fastlyActs' = fastlyActs \o newActs
              /\ nextId' = nextId + Len(created)
              /\ UNCHANGED <<fastlyKeys, fastlyCerts>>
              /\ callItems' = [callItems EXCEPT ![s] =
                                   @ \o [j \in 1..Len(items) |->
                                            <<items[j].Domain, items[j].Configuration>>]]
              /\ ApplyReturn(s, act, okIdx = 1..Len(items),
                             Repeat("CreateTLSActivation", Len(items)))
              /\ Returned(s, IF okIdx = 1..Len(items) THEN ""
                             ELSE "failed to create TLS activations")

\* deleteExtraFastlyTLSActivations (fastly.go:360-374)
deleteExtraFastlyTLSActivations(s, act) ==
    LET ids == ObservedState.ExtraTLSActivationIDs
    IN  \E okIdx \in SUBSET (1..Len(ids)) :
          /\ \A i \in okIdx : \E j \in 1..Len(fastlyActs) : fastlyActs[j].id = ids[i]
          /\ fastlyActs' = SubSeqAt(fastlyActs,
                              SelectIdx(fastlyActs, LAMBDA a : \A i \in okIdx : a.id # ids[i]), 1)
          /\ UNCHANGED <<fastlyKeys, fastlyCerts, nextId>>
          /\ callItems' = [callItems EXCEPT ![s] = @ \o ids]
          /\ ApplyReturn(s, act, okIdx = 1..Len(ids),
                         Repeat("DeleteTLSActivation", Len(ids)))
          /\ Returned(s, IF okIdx = 1..Len(ids) THEN ""
                         ELSE "failed to delete TLS activations")

\* variant of clearFastlyUnusedPrivateKeys: the loop ends at the first key the
\* provider refuses to delete
clearFastlyUnusedPrivateKeysStopAtFailure(s, act) ==
    LET ids == ObservedState.UnusedPrivateKeyIDs
    IN  \E n \in 0..Len(ids) :
        LET attempted == Min(n + 1, Len(ids)) IN
          /\ \A i \in 1..n : \E j \in 1..Len(KeysNotInUse) : KeysNotInUse[j].id = ids[i]
          /\ fastlyKeys' = SubSeqAt(fastlyKeys,
                              SelectIdx(fastlyKeys, LAMBDA k : \A i \in 1..n : k.id # ids[i]), 1)
          /\ UNCHANGED <<fastlyCerts, fastlyActs, nextId>>
          /\ callItems' = [callItems EXCEPT ![s] = @ \o SubSeq(ids, 1, attempted)]
          /\ ApplyReturn(s, act, TRUE, Repeat("DeletePrivateKey", attempted))
          /\ Returned(s, "")

\* clearFastlyUnusedPrivateKeys (fastly.go:389-399): failures are logged only
clearFastlyUnusedPrivateKeys(s, act) ==
    LET ids == ObservedState.UnusedPrivateKeyIDs
    IN  \E failed \in SubsetsUpTo(1..Len(ids), MaxFailingCalls) :
        LET okIdx == (1..Len(ids)) \ failed IN
          /\ \A i \in okIdx : \E j \in 1..Len(KeysNotInUse) : KeysNotInUse[j].id = ids[i]
          /\ fastlyKeys' = SubSeqAt(fastlyKeys,
                              SelectIdx(fastlyKeys, LAMBDA k : \A i \in okIdx : k.id # ids[i]), 1)
          /\ UNCHANGED <<fastlyCerts, fastlyActs, nextId>>
          /\ callItems' = [callItems EXCEPT ![s] = @ \o ids]
          /\ ApplyReturn(s, act, TRUE, Repeat("DeletePrivateKey", Len(ids)))
          /\ Returned(s, "")

\* CertBlob of the create or update call of this step, if the call was made
\* (fastly.go:185, 217)
CertBlob(s, call) ==
    callItems' = [callItems EXCEPT ![s] =
                     IF call \in Range(SubSeq(calls'[s], Len(calls[s]) + 1, Len(calls'[s])))
                     THEN <<getCertPEMForSecret(getCertificateAndTLSSecretFromSubject(s)).blob>>
                     ELSE <<>>]

ApplyUnmanaged(s) ==
    /\ pc[s] = "apply"
    /\ LET act == selectAction(SubjectReadyForReconciliation, ObservedState)
       IN  CASE act = "createPrivateKey" ->
                    createFastlyPrivateKey(s, act) /\ UNCHANGED callItems
             [] act = "createCertificate" ->
                    createFastlyCertificate(s, act)
                        /\ CertBlob(s, "CreateCustomTLSCertificate")
             [] act = "updateCertificate" ->
                    updateFastlyCertificate(s, act)
                        /\ CertBlob(s, "UpdateCustomTLSCertificate")
             [] act = "createActivations" -> createMissingFastlyTLSActivations(s, act)
             [] act = "deleteActivations" -> deleteExtraFastlyTLSActivations(s, act)
             [] act = "deleteUnusedKeys" -> clearFastlyUnusedPrivateKeys(s, act)
             [] OTHER -> /\ ApplyReturn(s, act, TRUE, <<>>)
                         /\ UNCHANGED <<remoteVars, callItems, errCause>>
    /\ UNCHANGED <<logicVars, localVars, status, MaxConcurrentReconciles, histVars>>

(***************************************************************************)
(* One reconciliation pass: FillStatus (status.go)                         *)
(***************************************************************************)
FillStatus(s) ==
    /\ pc[s] = "status"
    /\ status' = [status EXCEPT ![s] = filledStatus(ObservedState)]
    /\ pc' = [pc EXCEPT ![s] = "done"]
    /\ UNCHANGED <<logicVars, remoteVars, localVars, requeue, err, action, calls, callItems, errCause,
                   MaxConcurrentReconciles, histVars>>

\* the reconciler returns to the work queue: the pass's Context, with the
\* requeue it asked for and its error, is handed over and dropped; the
\* shared Logic keeps what the pass left in it
ReconcileReturn(s) ==
    /\ pc[s] = "done"
    /\ pc' = [pc EXCEPT ![s] = "idle"]
    /\ requeue' = [requeue EXCEPT ![s] = <<>>]
    /\ err' = [err EXCEPT ![s] = "none"]
    /\ action' = [action EXCEPT ![s] = ""]
    /\ calls' = [calls EXCEPT ![s] = <<>>]
    /\ callItems' = [callItems EXCEPT ![s] = <<>>]
    /\ errCause' = [errCause EXCEPT ![s] = ""]
    /\ snap' = [snap EXCEPT ![s] = NoSnapshot]
    /\ matched' = [matched EXCEPT ![s] = <<>>]
    /\ UNCHANGED <<logicVars, remoteVars, localVars, status, MaxConcurrentReconciles, stale>>

(***************************************************************************)
(* Initial states                                                          *)
(***************************************************************************)
Local(exists, ready, secretExists, key, crt, ca) ==
    [exists |-> exists, ready |-> ready, secretExists |-> secretExists,
     key |-> key, crt |-> crt, ca |-> ca]

PrivateKey(id, sha1) == [id |-> id, sha1 |-> sha1]

CustomTLSCertificate(id, name, serial, pub) ==
    [id |-> id, name |-> name, serial |-> serial,
     domains |-> CertificateDomains(name), pub |-> pub]

TLSActivation(id, cert, domain, config) ==
    [id |-> id, cert |-> cert, domain |-> domain, config |-> config]

\* activations the account may hold before the first pass
ActivationCandidates ==
    <<TLSActivation(301, 201, "d1", "c1"), TLSActivation(302, 201, "d1", "c3"),
      TLSActivation(303, 202, "d3", "c1")>>

InitLocalCa ==
    {Local(TRUE, "True", TRUE, "keyA", "crtA111", "absent"),
     Local(TRUE, "True", TRUE, "keyA", "crtA222", "absent"),
     Local(TRUE, "False", TRUE, "keyA", "crtA111", "absent"),
     Local(TRUE, "True", FALSE, "absent", "absent", "absent")}

InitLocalCb ==
    {Local(TRUE, "True", TRUE, "keyB", "crtB222", "absent")}

InitKeys ==
    {<<>>, <<PrivateKey(101, "sha-A")>>,
     <<PrivateKey(102, "sha-B"), PrivateKey(101, "sha-A")>>}

InitCerts ==
    {<<>>, <<CustomTLSCertificate(201, "ca", "111", "sha-A")>>,
     <<CustomTLSCertificate(201, "ca", "222", "sha-A"),
       CustomTLSCertificate(202, "cb", "222", "sha-B")>>}

InitCluster ==
    /\ HackLocal = FALSE
    /\ \E la \in InitLocalCa, lb \in InitLocalCb :
         localCert = [n \in CertNames |-> IF n = "ca" THEN la ELSE lb]
    /\ \E cfg \in {<<"c1">>, <<"c1", "c2">>} :
         subject = [s \in Syncs |->
                      IF s = "s1" THEN [CertificateName |-> "ca", TLSConfigurationIds |-> cfg]
                      ELSE [CertificateName |-> "cb", TLSConfigurationIds |-> <<"c1">>]]

InitProvider ==
    /\ fastlyKeys \in InitKeys
    /\ fastlyCerts \in InitCerts
    /\ \E idxs \in SUBSET (1..Len(ActivationCandidates)) :
         /\ \A i \in idxs : \E j \in 1..Len(fastlyCerts) :
                fastlyCerts[j].id = ActivationCandidates[i].cert
         /\ fastlyActs = SubSeqAt(ActivationCandidates, idxs, 1)
    /\ nextId = 1

InitLogic ==
    /\ SubjectReadyForReconciliation = FALSE
    /\ ObservedState = ZeroObservedState

InitPasses ==
    /\ pc = [s \in Syncs |-> "idle"]
    /\ requeue = [s \in Syncs |-> <<>>]
    /\ err = [s \in Syncs |-> "none"]
    /\ action = [s \in Syncs |-> ""]
    /\ calls = [s \in Syncs |-> <<>>]
    /\ callItems = [s \in Syncs |-> <<>>]
    /\ errCause = [s \in Syncs |-> ""]
    /\ status = [s \in Syncs |-> NoStatus]
    /\ snap = [s \in Syncs |-> NoSnapshot]
    /\ stale = [s \in Syncs |-> {}]
    /\ matched = [s \in Syncs |-> <<>>]

\* controller-runtime runs one reconcile at a time unless told otherwise, and
\* cmd/main.go does not tell it otherwise
Init ==
    /\ InitLogic
    /\ InitCluster
    /\ InitProvider
    /\ InitPasses
    /\ MaxConcurrentReconciles = 1

Pass(s) ==
    \/ ObserveResourcesBegin(s)
    \/ ObserveResourcesGate(s)
    \/ ObservePrivateKey(s)
    \/ ObserveCertificate(s)
    \/ ObserveActivations(s)
    \/ ObserveUnusedKeys(s)
    \/ ApplyUnmanaged(s)
    \/ FillStatus(s)
    \/ ReconcileReturn(s)

Next == \E s \in Syncs : Pass(s)

Spec == Init /\ [][Next]_vars

(***************************************************************************)
(* ApplyUnmanaged and FillStatus on their own: the pass has observed, and  *)
(* Logic holds any Observation the observation steps can write             *)
(***************************************************************************)
ApplyObservations ==
    [PrivateKeyUploaded : BOOLEAN,
     CertificateStatus : {CertificateStatusMissing, CertificateStatusStale,
                          CertificateStatusSynced},
     UnusedPrivateKeyIDs : {<<>>, <<102>>, <<102, 103>>},
     MissingTLSActivationData : {<<>>, <<TLSActivationData(201, "c1", "d1")>>,
                                 <<TLSActivationData(201, "c1", "d1"),
                                   TLSActivationData(201, "c1", "d2")>>},
     ExtraTLSActivationIDs : {<<>>, <<302>>, <<302, 305>>}]

InitApply ==
    /\ HackLocal \in BOOLEAN
    /\ \E root \in {"absent", "", RootBlock} :
         localCert = [n \in CertNames |->
                        IF n = "ca" THEN Local(TRUE, "True", TRUE, "keyA", "crtA111", root)
                        ELSE Local(TRUE, "True", TRUE, "keyB", "crtB222", "absent")]
    /\ subject = [s \in Syncs |->
                    IF s = "s1" THEN [CertificateName |-> "ca", TLSConfigurationIds |-> <<"c1">>]
                    ELSE [CertificateName |-> "cb", TLSConfigurationIds |-> <<"c1">>]]
    /\ fastlyKeys = <<PrivateKey(102, "sha-B"), PrivateKey(103, "sha-X"),
                      PrivateKey(101, "sha-A")>>
    \* the certificate the pass observed may have been removed from the account,
    \* with its activations, before the pass acts
    /\ \/ /\ fastlyCerts = <<CustomTLSCertificate(201, "ca", "222", "sha-A")>>
          /\ fastlyActs = <<TLSActivation(302, 201, "d1", "c3"),
                            TLSActivation(305, 201, "d2", "c3")>>
       \/ /\ fastlyCerts = <<>>
          /\ fastlyActs = <<>>
    /\ nextId = 1
    /\ \/ /\ SubjectReadyForReconciliation = TRUE
          /\ ObservedState \in ApplyObservations
          /\ requeue = [s \in Syncs |-> <<>>]
       \/ /\ SubjectReadyForReconciliation = FALSE
          /\ ObservedState = ZeroObservedState
          /\ requeue = [s \in Syncs |-> IF s = "s1" THEN <<NotReadyRequeueSeconds>> ELSE <<>>]
    /\ pc = [s \in Syncs |-> IF s = "s1" THEN "apply" ELSE "idle"]
    /\ err = [s \in Syncs |-> "none"]
    /\ action = [s \in Syncs |-> ""]
    /\ calls = [s \in Syncs |-> <<>>]
    /\ callItems = [s \in Syncs |-> <<>>]
    /\ errCause = [s \in Syncs |-> ""]
    /\ status = [s \in Syncs |-> NoStatus]
    /\ snap = [s \in Syncs |->
                 IF s = "s1" THEN LogicSnapshot(SubjectReadyForReconciliation, ObservedState)
                 ELSE NoSnapshot]
    /\ stale = [s \in Syncs |-> {}]
    /\ matched = [s \in Syncs |-> <<>>]
    /\ MaxConcurrentReconciles = 1

NextApply ==
    \E s \in Syncs :
        \/ ApplyUnmanaged(s)
        \/ FillStatus(s)
        \/ ReconcileReturn(s)

SpecApply == InitApply /\ [][NextApply]_vars

(***************************************************************************)
(* ObserveResources on its own, over inventories that span several pages   *)
(***************************************************************************)
FillCounts == {0, defaultFastlyPageSize - 1, defaultFastlyPageSize, MaxFill}

\* entries of other tenants of the account, which match no SyncRequest
FillerKeys(n) == [i \in 1..n |-> PrivateKey(1000 + i, "sha-X")]

FillerCerts(n) == [i \in 1..n |-> CustomTLSCertificate(2000 + i, "cx", "000", "sha-X")]

ObserveLocalCa ==
    InitLocalCa \cup
    {Local(TRUE, "True", TRUE, "keyA", "crtA111", RootBlock),
     Local(TRUE, "True", TRUE, "garbage", "crtA111", "absent"),
     Local(TRUE, "True", TRUE, "keyA", "garbage", "absent"),
     Local(TRUE, "True", TRUE, "keyA", "garbage", RootBlock),
     \* no Certificate of that name in the SyncRequest's namespace
     Local(FALSE, "", FALSE, "absent", "absent", "absent"),
     \* a Ready condition with status Unknown, and no Ready condition at all
     Local(TRUE, "Unknown", TRUE, "keyA", "crtA111", "absent"),
     Local(TRUE, "", TRUE, "keyA", "crtA111", "absent")}

ObserveCerts ==
    InitCerts \cup
    {<<CustomTLSCertificate(201, "ca", "111", "sha-A"),
       CustomTLSCertificate(203, "ca", "222", "sha-A")>>}

ObserveConfigIds == {<<"c1">>, <<"c1", "c2">>, <<"c1", "c1">>}

InitObserve ==
    /\ InitLogic
    /\ InitPasses
    /\ MaxConcurrentReconciles = 1
    /\ HackLocal \in BOOLEAN
    /\ \E la \in ObserveLocalCa, lb \in InitLocalCb :
         localCert = [n \in CertNames |-> IF n = "ca" THEN la ELSE lb]
    /\ \E cfg \in ObserveConfigIds :
         subject = [s \in Syncs |->
                      IF s = "s1" THEN [CertificateName |-> "ca", TLSConfigurationIds |-> cfg]
                      ELSE [CertificateName |-> "cb", TLSConfigurationIds |-> <<"c1">>]]
    /\ \E n \in FillCounts, tail \in InitKeys : fastlyKeys = FillerKeys(n) \o tail
    /\ \E n \in FillCounts, tail \in ObserveCerts :
         fastlyCerts \in {FillerCerts(n) \o tail, tail \o FillerCerts(n)}
    /\ \E idxs \in SUBSET (1..Len(ActivationCandidates)) :
         /\ \A i \in idxs : \E j \in 1..Len(fastlyCerts) :
                fastlyCerts[j].id = ActivationCandidates[i].cert
         /\ fastlyActs = SubSeqAt(ActivationCandidates, idxs, 1)
    /\ nextId = 1

NextObserve ==
    \E s \in Syncs :
        \/ ObserveResourcesBegin(s)
        \/ ObserveResourcesGate(s)
        \/ ObservePrivateKey(s)
        \/ ObserveCertificate(s)
        \/ ObserveActivations(s)
        \/ ObserveUnusedKeys(s)

SpecObserve == InitObserve /\ [][NextObserve]_vars

(***************************************************************************)
(* A work queue with two workers: passes of the two SyncRequests interleave *)
(* on the one Logic the reconciler was built with                          *)
(***************************************************************************)
InitConcurrent ==
    /\ InitLogic
    /\ InitPasses
    /\ MaxConcurrentReconciles = 2
    /\ HackLocal = FALSE
    /\ localCert = [n \in CertNames |->
                      IF n = "ca" THEN Local(TRUE, "True", TRUE, "keyA", "crtA111", "absent")
                      ELSE Local(TRUE, "True", TRUE, "keyB", "crtB222", "absent")]
    /\ subject = [s \in Syncs |->
                    IF s = "s1" THEN [CertificateName |-> "ca", TLSConfigurationIds |-> <<"c1">>]
                    ELSE [CertificateName |-> "cb", TLSConfigurationIds |-> <<"c1">>]]
    /\ fastlyKeys = <<PrivateKey(102, "sha-B"), PrivateKey(101, "sha-A")>>
    /\ fastlyCerts \in {<<CustomTLSCertificate(201, "ca", "222", "sha-A"),
                          CustomTLSCertificate(202, "cb", "222", "sha-B")>>,
                        <<CustomTLSCertificate(201, "ca", "111", "sha-A"),
                          CustomTLSCertificate(202, "cb", "222", "sha-B")>>}
    /\ fastlyActs = <<TLSActivation(303, 202, "d3", "c1")>>
    /\ nextId = 1

\* one pass of each SyncRequest, the two overlapping in any way
NextConcurrent ==
    \E s \in Syncs :
        \/ ObserveResourcesBegin(s)
        \/ ObserveResourcesGate(s)
        \/ ObservePrivateKey(s)
        \/ ObserveCertificate(s)
        \/ ObserveActivations(s)
        \/ ObserveUnusedKeys(s)
        \/ ApplyUnmanaged(s)
        \/ FillStatus(s)

SpecConcurrent == InitConcurrent /\ [][NextConcurrent]_vars

(***************************************************************************)
(* Key rotation: cert-manager replaces the secret of Certificate "ca" by   *)
(* one with a new key between two passes of its SyncRequest                *)
(***************************************************************************)
\* unused keys the account holds before the rotation
UnusedFill == {0, defaultFastlyPageSize}

InitRotate ==
    /\ InitLogic
    /\ InitPasses
    /\ MaxConcurrentReconciles = 1
    /\ HackLocal = FALSE
    /\ localCert = [n \in CertNames |->
                      IF n = "ca" THEN Local(TRUE, "True", TRUE, "keyA", "crtA111", "absent")
                      ELSE Local(TRUE, "True", TRUE, "keyB", "crtB222", "absent")]
    /\ subject = [s \in Syncs |->
                    IF s = "s1" THEN [CertificateName |-> "ca", TLSConfigurationIds |-> <<"c1">>]
                    ELSE [CertificateName |-> "cb", TLSConfigurationIds |-> <<"c1">>]]
    /\ \E n \in UnusedFill : fastlyKeys = FillerKeys(n) \o <<PrivateKey(101, "sha-A")>>
    /\ fastlyCerts = <<CustomTLSCertificate(201, "ca", "111", "sha-A")>>
    /\ fastlyActs = <<TLSActivation(301, 201, "d1", "c1"), TLSActivation(304, 201, "d2", "c1")>>
    /\ nextId = 1

\* the Certificate is re-issued with a new private key: the secret now holds
\* the new key and a leaf certificate for it
RotatePrivateKey(name) ==
    /\ \A s \in Syncs : pc[s] = "idle"
    /\ localCert[name].key = "keyA"
    /\ localCert' = [localCert EXCEPT ![name].key = "keyB", ![name].crt = "crtB222"]
    /\ UNCHANGED <<logicVars, remoteVars, subject, HackLocal, pc, requeue, err, action,
                   calls, status, callItems, errCause, MaxConcurrentReconciles, histVars>>

NextRotate ==
    \/ RotatePrivateKey("ca")
    \/ Pass("s1")

SpecRotate == InitRotate /\ [][NextRotate]_vars

(***************************************************************************)
(* ObserveResources called again on the same Logic for the same            *)
(* SyncRequest, with no ApplyUnmanaged in between and nothing else at work *)
(***************************************************************************)
ReobserveActivations ==
    <<TLSActivation(301, 201, "d1", "c1"), TLSActivation(302, 201, "d1", "c3"),
      TLSActivation(305, 201, "d2", "c3")>>

InitReobserve ==
    /\ InitLogic
    /\ InitPasses
    /\ MaxConcurrentReconciles = 1
    /\ HackLocal = FALSE
    /\ localCert = [n \in CertNames |->
                      IF n = "ca" THEN Local(TRUE, "True", TRUE, "keyA", "crtA111", "absent")
                      ELSE Local(TRUE, "True", TRUE, "keyB", "crtB222", "absent")]
    /\ \E cfg \in {<<"c1">>, <<"c1", "c2">>} :
         subject = [s \in Syncs |->
                      IF s = "s1" THEN [CertificateName |-> "ca", TLSConfigurationIds |-> cfg]
                      ELSE [CertificateName |-> "cb", TLSConfigurationIds |-> <<"c1">>]]
    /\ fastlyKeys \in InitKeys
    /\ fastlyCerts \in InitCerts \ {<<>>}
    /\ \E idxs \in SUBSET (1..Len(ReobserveActivations)) :
         fastlyActs = SubSeqAt(ReobserveActivations, idxs, 1)
    /\ nextId = 1

\* ObserveResources is entered again after it returned nil: the reset of
\* lines 176-179 as in any call; snap keeps what the call before left, for
\* the comparison of the two
ObserveResourcesAgain(s) ==
    /\ pc[s] = "apply"
    /\ snap[s].ready
    /\ LET r == ObserveResourcesReset(SubjectReadyForReconciliation, ObservedState)
       IN  /\ SubjectReadyForReconciliation' = r.ready
           /\ ObservedState' = r.obs
           /\ stale' = [t \in Syncs |-> IF t = s THEN LogicFields \ r.written
                                        ELSE stale[t] \ r.written]
    /\ pc' = [pc EXCEPT ![s] = "gate"]
    /\ calls' = [calls EXCEPT ![s] = <<>>]
    /\ UNCHANGED <<remoteVars, localVars, requeue, err, action, status, callItems, errCause,
                   MaxConcurrentReconciles, snap, matched>>

NextReobserve ==
    \/ ObserveResourcesBegin("s1")
    \/ ObserveResourcesGate("s1")
    \/ ObservePrivateKey("s1")
    \/ ObserveCertificate("s1")
    \/ ObserveActivations("s1")
    \/ ObserveUnusedKeys("s1")
    \/ ObserveResourcesAgain("s1")

SpecReobserve == InitReobserve /\ [][NextReobserve]_vars

(***************************************************************************)
(* The account is not the operator's alone: another client of the Fastly   *)
(* API deletes a certificate while a pass of SyncRequest s1 is observing   *)
(***************************************************************************)
\* activations the account may hold on the two certificates named "ca"
DriftActivations ==
    <<TLSActivation(301, 201, "d1", "c1"), TLSActivation(306, 203, "d1", "c1"),
      TLSActivation(307, 203, "d2", "c3")>>

InitDrift ==
    /\ InitLogic
    /\ InitPasses
    /\ MaxConcurrentReconciles = 1
    /\ HackLocal = FALSE
    /\ \E la \in InitLocalCa, lb \in InitLocalCb :
         localCert = [n \in CertNames |-> IF n = "ca" THEN la ELSE lb]
    /\ \E cfg \in {<<"c1">>, <<"c1", "c2">>} :
         subject = [s \in Syncs |->
                      IF s = "s1" THEN [CertificateName |-> "ca", TLSConfigurationIds |-> cfg]
                      ELSE [CertificateName |-> "cb", TLSConfigurationIds |-> <<"c1">>]]
    /\ fastlyKeys \in InitKeys
    /\ fastlyCerts \in ObserveCerts
    /\ \E idxs \in SUBSET (1..Len(DriftActivations)) :
         /\ \A i \in idxs : \E j \in 1..Len(fastlyCerts) :
                fastlyCerts[j].id = DriftActivations[i].cert
         /\ fastlyActs = SubSeqAt(DriftActivations, idxs, 1)
    /\ nextId = 1

\* what ListCustomTLSCertificates returns changes between two calls: the
\* certificate with this id is gone (the provider refuses to delete a
\* certificate that still has activations)
DeleteCustomTLSCertificate(id) ==
    /\ \E i \in 1..Len(fastlyCerts) : fastlyCerts[i].id = id
    /\ ActivationsOfCertificate(id) = <<>>
    /\ fastlyCerts' = SubSeqAt(fastlyCerts, SelectIdx(fastlyCerts, LAMBDA c : c.id # id), 1)
    /\ UNCHANGED <<logicVars, fastlyKeys, fastlyActs, nextId, localVars, pc, requeue, err,
                   action, calls, status, callItems, errCause, MaxConcurrentReconciles, histVars>>

NextDrift ==
    \/ \E id \in 201..203 : DeleteCustomTLSCertificate(id)
    \/ ObserveResourcesBegin("s1")
    \/ ObserveResourcesGate("s1")
    \/ ObservePrivateKey("s1")
    \/ ObserveCertificate("s1")
    \/ ObserveActivations("s1")
    \/ ObserveUnusedKeys("s1")

SpecDrift == InitDrift /\ [][NextDrift]_vars

(***************************************************************************)
(* One SyncRequest on its own, re-run for ever: the work queue hands a     *)
(* request back to the reconciler after every pass (zero-delay requeue,    *)
(* error back-off or resync period), so a pass that can take a step does   *)
(***************************************************************************)
InitConverge ==
    /\ InitLogic
    /\ InitPasses
    /\ MaxConcurrentReconciles = 1
    /\ HackLocal = FALSE
    /\ \E crt \in {"crtA111", "crtA222"} :
         localCert = [n \in CertNames |->
                        IF n = "ca" THEN Local(TRUE, "True", TRUE, "keyA", crt, "absent")
                        ELSE Local(TRUE, "True", TRUE, "keyB", "crtB222", "absent")]
    /\ \E cfg \in {<<"c1">>, <<"c1", "c2">>} :
         subject = [s \in Syncs |->
                      IF s = "s1" THEN [CertificateName |-> "ca", TLSConfigurationIds |-> cfg]
                      ELSE [CertificateName |-> "cb", TLSConfigurationIds |-> <<"c1">>]]
    /\ InitProvider

NextConverge == Pass("s1")

PassPcs == {"idle", "gate", "obsKey", "obsCert", "obsAct", "obsUnused", "apply", "status", "done"}

\* the pass of s moves on: every step of a pass, and the hand-over to the
\* work queue and back, takes the pass to another position
PassAdvances(s) == \E at \in PassPcs \ {pc[s]} : pc' = [pc EXCEPT ![s] = at]

SpecConverge == InitConverge /\ [][NextConverge]_vars /\ WF_pc(PassAdvances("s1"))

(***************************************************************************)
(* Two SyncRequests on one Fastly account, their passes taking turns: the  *)
(* second names either a Certificate of its own, re-issued with a new key  *)
(* since its remote certificate was uploaded, or the Certificate of the    *)
(* first with another configuration                                        *)
(***************************************************************************)
AccountActivations ==
    <<TLSActivation(301, 201, "d1", "c1"), TLSActivation(304, 201, "d2", "c1"),
      TLSActivation(303, 202, "d3", "c1")>>

InitAccount ==
    /\ InitLogic
    /\ InitPasses
    /\ MaxConcurrentReconciles = 1
    /\ HackLocal = FALSE
    /\ localCert = [n \in CertNames |->
                      IF n = "ca" THEN Local(TRUE, "True", TRUE, "keyA", "crtA111", "absent")
                      ELSE Local(TRUE, "True", TRUE, "keyB", "crtB222", "absent")]
    /\ \E other \in {[CertificateName |-> "cb", TLSConfigurationIds |-> <<"c1">>],
                      [CertificateName |-> "ca", TLSConfigurationIds |-> <<"c2">>]} :
         subject = [s \in Syncs |->
                      IF s = "s1" THEN [CertificateName |-> "ca", TLSConfigurationIds |-> <<"c1">>]
                      ELSE other]
    /\ fastlyKeys = <<PrivateKey(101, "sha-A"), PrivateKey(103, "sha-X")>>
    /\ fastlyCerts = <<CustomTLSCertificate(201, "ca", "111", "sha-A"),
                       CustomTLSCertificate(202, "cb", "111", "sha-X")>>
    /\ \E idxs \in SUBSET (1..Len(AccountActivations)) :
         fastlyActs = SubSeqAt(AccountActivations, idxs, 1)
    /\ nextId = 1

NextAccount == \E s \in Syncs : Pass(s)

SpecAccount == InitAccount /\ [][NextAccount]_vars

(***************************************************************************)
(* ObserveResources over an account whose activation listing returns more  *)
(* than one activation of the same certificate, domain and configuration   *)
(***************************************************************************)
DuplicateActivations ==
    <<TLSActivation(301, 201, "d1", "c1"), TLSActivation(302, 201, "d1", "c3"),
      TLSActivation(308, 201, "d1", "c3"), TLSActivation(309, 201, "d1", "c1")>>

InitDuplicates ==
    /\ InitLogic
    /\ InitPasses
    /\ MaxConcurrentReconciles = 1
    /\ HackLocal = FALSE
    /\ localCert = [n \in CertNames |->
                      IF n = "ca" THEN Local(TRUE, "True", TRUE, "keyA", "crtA111", "absent")
                      ELSE Local(TRUE, "True", TRUE, "keyB", "crtB222", "absent")]
    /\ \E cfg \in {<<"c1">>, <<"c1", "c2">>} :
         subject = [s \in Syncs |->
                      IF s = "s1" THEN [CertificateName |-> "ca", TLSConfigurationIds |-> cfg]
                      ELSE [CertificateName |-> "cb", TLSConfigurationIds |-> <<"c1">>]]
    /\ fastlyKeys \in InitKeys
    /\ fastlyCerts \in InitCerts \ {<<>>}
    /\ \E idxs \in SUBSET (1..Len(DuplicateActivations)) :
         fastlyActs = SubSeqAt(DuplicateActivations, idxs, 1)
    /\ nextId = 1

NextDuplicates ==
    \/ ObserveResourcesBegin("s1")
    \/ ObserveResourcesGate("s1")
    \/ ObservePrivateKey("s1")
    \/ ObserveCertificate("s1")
    \/ ObserveActivations("s1")
    \/ ObserveUnusedKeys("s1")

SpecDuplicates == InitDuplicates /\ [][NextDuplicates]_vars

(***************************************************************************)
(* Properties                                                              *)
(***************************************************************************)
SixActions == {"createPrivateKey", "createCertificate", "updateCertificate",
               "createActivations", "deleteActivations", "deleteUnusedKeys"}

\* the provider call that carries out a step of the priority list
MutatingCallOf(act) ==
    CASE act = "createPrivateKey" -> "CreatePrivateKey"
      [] act = "createCertificate" -> "CreateCustomTLSCertificate"
      [] act = "updateCertificate" -> "UpdateCustomTLSCertificate"
      [] act = "createActivations" -> "CreateTLSActivation"
      [] act = "deleteActivations" -> "DeleteTLSActivation"
      [] act = "deleteUnusedKeys" -> "DeletePrivateKey"
      [] OTHER -> "no call"

\* the priority list: condition and step, in the fixed order
PriorityList(o) ==
    <<[holds |-> ~o.PrivateKeyUploaded, step |-> "createPrivateKey"],
      [holds |-> o.CertificateStatus = "Missing", step |-> "createCertificate"],
      [holds |-> o.CertificateStatus = "Stale", step |-> "updateCertificate"],
      [holds |-> o.MissingTLSActivationData # <<>>, step |-> "createActivations"],
      [holds |-> o.ExtraTLSActivationIDs # <<>>, step |-> "deleteActivations"],
      [holds |-> o.UnusedPrivateKeyIDs # <<>>, step |-> "deleteUnusedKeys"]>>

FirstHolding(o) ==
    LET l == PriorityList(o)
        hit == {i \in 1..Len(l) : l[i].holds}
    IN  IF hit = {} THEN "none" ELSE l[CHOOSE i \in hit : \A j \in hit : i <= j].step

OtherMutatingCalls(s) ==
    {i \in 1..Len(calls[s]) :
        calls[s][i] \in MutatingCalls /\ calls[s][i] # MutatingCallOf(action[s])}

\* C1: for every Observation of a ready SyncRequest, ApplyUnmanaged takes the
\* step of the first condition of the priority list that holds, makes no
\* mutating call of any other step in the pass, and an Observation without an
\* uploaded private key always gives "create private key"
C1_ActionPriority ==
    \A s \in Syncs :
        (pc[s] \in {"status", "done"} /\ action[s] # "" /\ SubjectReadyForReconciliation) =>
            /\ action[s] = FirstHolding(ObservedState)
            /\ OtherMutatingCalls(s) = {}
            /\ ~ObservedState.PrivateKeyUploaded => action[s] = "createPrivateKey"

C1_Witness ==
    /\ pc["s1"] = "status"
    /\ SubjectReadyForReconciliation
    /\ ~ObservedState.PrivateKeyUploaded
    /\ ObservedState.CertificateStatus = "Missing"
    /\ Len(ObservedState.MissingTLSActivationData) > 0
    /\ Len(ObservedState.UnusedPrivateKeyIDs) > 0
    /\ action["s1"] = "createPrivateKey"
    /\ calls["s1"] = <<"CreatePrivateKey">>

\* C2: a pass whose readiness gate returned not-ready makes no call to the
\* provider, asks for a re-check after exactly 30 seconds and returns no error
C2_NotReadyTouchesNothing ==
    \A s \in Syncs :
        (pc[s] \in {"apply", "status", "done"} /\ ~SubjectReadyForReconciliation) =>
            /\ calls[s] = <<>>
            /\ requeue[s] = <<30>>
            /\ err[s] = "none"

C2_Witness ==
    /\ pc["s1"] = "done"
    /\ ~SubjectReadyForReconciliation
    /\ action["s1"] = "skipped"
    /\ requeue["s1"] = <<30>>
    /\ calls["s1"] = <<>>
    /\ Len(status["s1"].Conditions) = 5

\* C3: once a step 1-6 has returned without error the pass has asked for a
\* re-run with zero delay and makes no call of another step; a pass with
\* nothing to do asks for no re-run and makes no mutating call
C3_RequeueAfterAction ==
    \A s \in Syncs :
        (pc[s] \in {"status", "done"} /\ err[s] = "none" /\ action[s] # ""
            /\ SubjectReadyForReconciliation) =>
            /\ action[s] \in SixActions => (requeue[s] = <<0>> /\ OtherMutatingCalls(s) = {})
            /\ action[s] = "none" =>
                   (requeue[s] = <<>> /\ \A i \in 1..Len(calls[s]) : calls[s][i] \notin MutatingCalls)

C3_Witness ==
    /\ pc["s1"] = "done"
    /\ err["s1"] = "none"
    /\ action["s1"] = "deleteUnusedKeys"
    /\ requeue["s1"] = <<0>>
    /\ calls["s1"] = <<"DeletePrivateKey">>
    /\ Len(status["s1"].Conditions) = 5

ObservePcs == {"idle", "gate", "obsKey", "obsCert", "obsAct", "obsUnused"}

\* C4: every step of ObserveResources (reset, gate, private key, certificate,
\* activations, unused keys) leaves the provider's stores and the local
\* objects as they were and has logged no create, update or delete call
C4_ObservationReadOnly ==
    [][\A s \in Syncs :
          (pc[s] \in ObservePcs /\ pc'[s] # pc[s]) =>
              /\ UNCHANGED <<remoteVars, localVars>>
              /\ \A i \in 1..Len(calls'[s]) : calls'[s][i] \notin MutatingCalls]_vars

C4_Witness ==
    /\ pc["s1"] = "apply"
    /\ SubjectReadyForReconciliation
    /\ Len(fastlyKeys) > defaultFastlyPageSize
    /\ Len(ObservedState.UnusedPrivateKeyIDs) > 0
    /\ Len(calls["s1"]) >= 5

\* C5: whenever ApplyUnmanaged or FillStatus of a pass is about to read
\* Logic, Logic holds what the ObserveResources of that same pass left there
C5_ObservationOfSamePass ==
    \A s \in Syncs :
        pc[s] \in {"apply", "status"} =>
            LogicSnapshot(SubjectReadyForReconciliation, ObservedState) = snap[s]

\* C6: ObserveResources starts by setting the readiness flag to false and
\* the Observation to its zero value, before any query; during the pass no
\* field of Logic holds a value written before the pass began
C6_ResetAtStart ==
    \A s \in Syncs :
        /\ pc[s] = "gate" =>
               /\ ~SubjectReadyForReconciliation
               /\ ObservedState = ZeroObservedState
               /\ calls[s] = <<>>
        /\ pc[s] # "idle" => stale[s] = {}

C6_Witness ==
    /\ pc["s2"] = "gate"
    /\ Len(status["s1"].Conditions) = 5
    /\ status["s1"].Conditions[1].Status = "True"
    /\ status["s1"].Conditions[4].Status = "True"
    /\ ObservedState = ZeroObservedState

\* the first certificate of the whole remote inventory with the name of the
\* SyncRequest's certificate (an index, 0 when there is none)
FirstNamed(s) ==
    LET hits == {i \in 1..Len(fastlyCerts) : fastlyCerts[i].name = subject[s].CertificateName}
    IN  IF hits = {} THEN 0 ELSE CHOOSE i \in hits : \A j \in hits : i <= j

\* C7: the missing list holds exactly the desired (domain, configuration)
\* pairs without a remote activation of the matched certificate, the extra
\* list exactly the ids of its remote activations whose pair is not desired,
\* and no kept activation is extra
C7_ActivationDiffPartition ==
    \A s \in Syncs :
        (pc[s] \in {"obsUnused", "apply"} /\ SubjectReadyForReconciliation) =>
            LET cert == fastlyCerts[FirstNamed(s)]
                desired == Range(cert.domains) \X Range(subject[s].TLSConfigurationIds)
                actual == {a \in Range(fastlyActs) : a.cert = cert.id}
                kept == {a \in actual : <<a.domain, a.config>> \in desired}
                missing == ObservedState.MissingTLSActivationData
                extra == ObservedState.ExtraTLSActivationIDs
            IN  /\ {<<missing[i].Domain, missing[i].Configuration>> : i \in 1..Len(missing)}
                       = {p \in desired :
                             ~\E a \in actual : <<a.domain, a.config>> = p}
                /\ Range(extra) = {a.id : a \in actual \ kept}
                /\ {a.id : a \in kept} \cap Range(extra) = {}

\* C8: the certificate status is Missing exactly when no certificate of the
\* remote inventory, on whatever page, has the local certificate's name;
\* otherwise the first one with that name decides: Stale when its serial
\* differs from the local leaf's decimal serial, Synced when they are equal
C8_CertificateStatus ==
    \A s \in Syncs :
        (pc[s] \in {"obsAct", "obsUnused", "apply"} /\ SubjectReadyForReconciliation) =>
            LET leaf == ParseCertificateSerial(localCert[subject[s].CertificateName].crt)
                st == ObservedState.CertificateStatus
            IN  IF FirstNamed(s) = 0 THEN st = "Missing"
                ELSE IF fastlyCerts[FirstNamed(s)].serial # leaf.serial THEN st = "Stale"
                ELSE st = "Synced"

C8_Witness ==
    /\ pc["s1"] = "obsAct"
    /\ FirstNamed("s1") > 2 * defaultFastlyPageSize
    /\ \E i \in 1..Len(fastlyCerts) :
           /\ i > FirstNamed("s1")
           /\ fastlyCerts[i].name = "ca"
           /\ fastlyCerts[i].serial # fastlyCerts[FirstNamed("s1")].serial
    /\ ObservedState.CertificateStatus = "Synced"

\* C9: PrivateKeyUploaded is true exactly when some private key of the remote
\* inventory, on whatever page, has the fingerprint of the local secret's key
C9_PrivateKeyUploaded ==
    \A s \in Syncs :
        (pc[s] \in {"obsCert", "obsAct", "obsUnused", "apply"}
            /\ SubjectReadyForReconciliation) =>
            LET local == getPublicKeySHA1FromPEM(localCert[subject[s].CertificateName].key)
            IN  ObservedState.PrivateKeyUploaded
                    <=> \E i \in 1..Len(fastlyKeys) : fastlyKeys[i].sha1 = local.sha1

C9_Witness ==
    /\ pc["s1"] = "obsCert"
    /\ ObservedState.PrivateKeyUploaded
    /\ \A i \in 1..Len(fastlyKeys) :
           fastlyKeys[i].sha1 = "sha-A" => i > 2 * defaultFastlyPageSize

\* C10: the Ready that FillStatus writes is true exactly when the Observation
\* has the private key uploaded, the certificate Synced, and no missing
\* activation, no extra activation and no unused private key
C10_ReadyIffAllSynced ==
    \A s \in Syncs :
        (pc[s] = "done" /\ err[s] = "none" /\ action[s] # "") =>
            (status[s].Ready <=>
                /\ ObservedState.PrivateKeyUploaded
                /\ ObservedState.CertificateStatus = "Synced"
                /\ ObservedState.MissingTLSActivationData = <<>>
                /\ ObservedState.ExtraTLSActivationIDs = <<>>
                /\ ObservedState.UnusedPrivateKeyIDs = <<>>)

C10_Witness ==
    /\ pc["s1"] = "done"
    /\ action["s1"] = "none"
    /\ status["s1"].Ready
    /\ ObservedState.PrivateKeyUploaded
    /\ ObservedState.CertificateStatus = "Synced"

\* the status of the condition of a type in a filled Status
ConditionStatus(st, type) ==
    LET hits == {i \in 1..Len(st.Conditions) : st.Conditions[i].Type = type}
    IN  IF hits = {} THEN "absent" ELSE st.Conditions[CHOOSE i \in hits : TRUE].Status

\* C11: in every Status that FillStatus wrote, Ready is true exactly when the
\* condition Ready is True, and the condition Ready is True exactly when
\* PrivateKeyReady, CertificateReady and TLSActivationReady are True and
\* CleanupRequired is False
C11_ReadyAgreesWithConditions ==
    \A s \in Syncs :
        Len(status[s].Conditions) > 0 =>
            /\ status[s].Ready <=> ConditionStatus(status[s], "Ready") = "True"
            /\ ConditionStatus(status[s], "Ready") = "True" <=>
                   /\ ConditionStatus(status[s], "PrivateKeyReady") = "True"
                   /\ ConditionStatus(status[s], "CertificateReady") = "True"
                   /\ ConditionStatus(status[s], "TLSActivationReady") = "True"
                   /\ ConditionStatus(status[s], "CleanupRequired") = "False"

C11_Witness ==
    /\ pc["s1"] = "done"
    /\ Len(status["s1"].Conditions) = 5
    /\ ~status["s1"].Ready
    /\ ConditionStatus(status["s1"], "PrivateKeyReady") = "True"
    /\ ConditionStatus(status["s1"], "CertificateReady") = "True"
    /\ ConditionStatus(status["s1"], "TLSActivationReady") = "True"
    /\ ConditionStatus(status["s1"], "CleanupRequired") = "True"

\* the decimal serial number of the leaf certificate in the SyncRequest's secret
LocalSerial(s) == ParseCertificateSerial(localCert[subject[s].CertificateName].crt).serial

\* the ids of the remote certificates, in inventory order
CertificateIds(certs) == [i \in 1..Len(certs) |-> certs[i].id]

\* C12: a pass that observed the certificate as Missing with the private key
\* uploaded, and none of whose observation steps returned an error, issues
\* create-certificate; a remote certificate with the local name and the local
\* serial is observed as Synced; no second certificate of a name is created
C12_CreateMissingCertificate ==
    \A s \in Syncs :
        /\ (pc[s] = "done" /\ err[s] # "observe" /\ SubjectReadyForReconciliation
                /\ ObservedState.PrivateKeyUploaded
                /\ ObservedState.CertificateStatus = "Missing") =>
               /\ action[s] = "createCertificate"
               /\ \E i \in 1..Len(calls[s]) : calls[s][i] = "CreateCustomTLSCertificate"
        /\ (pc[s] \in {"obsAct", "obsUnused", "apply"} /\ SubjectReadyForReconciliation
                /\ FirstNamed(s) # 0 /\ fastlyCerts[FirstNamed(s)].serial = LocalSerial(s)) =>
               ObservedState.CertificateStatus = "Synced"
        /\ Cardinality({i \in 1..Len(fastlyCerts) :
                            fastlyCerts[i].name = subject[s].CertificateName}) <= 1

LocalFingerprint(s) == getPublicKeySHA1FromPEM(localCert[subject[s].CertificateName].key).sha1

\* the calls a step of the pass of s added to the pass's call log
NewCalls(s) == SubSeq(calls'[s], Len(calls[s]) + 1, Len(calls'[s]))

\* C14: a pass that finds no remote key with the local key's fingerprint
\* observes PrivateKeyUploaded=false and takes the create-private-key step,
\* which leaves every existing remote key as it is and adds one with the new
\* fingerprint; once the remote certificate uses the local key, every remote
\* key no certificate uses is in the observed unused-key list, and the
\* cleanup step issues a delete for every key of that list
C14_KeyRotation ==
    [][\A s \in Syncs :
          /\ (pc[s] = "obsKey" /\ pc'[s] = "obsCert"
                  /\ \A i \in 1..Len(fastlyKeys) : fastlyKeys[i].sha1 # LocalFingerprint(s)) =>
                 ~ObservedState'.PrivateKeyUploaded
          /\ (pc[s] = "apply" /\ pc'[s] # "apply" /\ SubjectReadyForReconciliation
                  /\ ~ObservedState.PrivateKeyUploaded) =>
                 /\ action'[s] = "createPrivateKey"
                 /\ Len(fastlyKeys') >= Len(fastlyKeys)
                 /\ SubSeq(fastlyKeys', 1, Len(fastlyKeys)) = fastlyKeys
                 /\ UNCHANGED <<fastlyCerts, fastlyActs>>
                 /\ err'[s] = "none" =>
                        /\ Len(fastlyKeys') = Len(fastlyKeys) + 1
                        /\ fastlyKeys'[Len(fastlyKeys')].sha1 = LocalFingerprint(s)
                        /\ NewCalls(s) = <<"CreatePrivateKey">>
          /\ (pc[s] = "obsUnused" /\ pc'[s] = "apply" /\ FirstNamed(s) # 0
                  /\ fastlyCerts[FirstNamed(s)].pub = LocalFingerprint(s)) =>
                 \A i \in 1..Len(fastlyKeys) :
                     (\A j \in 1..Len(fastlyCerts) : fastlyCerts[j].pub # fastlyKeys[i].sha1) =>
                         \E k \in 1..Len(ObservedState'.UnusedPrivateKeyIDs) :
                             ObservedState'.UnusedPrivateKeyIDs[k] = fastlyKeys[i].id
          /\ (pc[s] = "apply" /\ pc'[s] # "apply" /\ action'[s] = "deleteUnusedKeys") =>
                 NewCalls(s) = Repeat("DeletePrivateKey", Len(ObservedState.UnusedPrivateKeyIDs))]_vars

\* C15: what a completed observation holds is computed from the complete
\* remote inventories, whatever their size: the private key is looked for
\* among all keys, the certificate among all certificates, every remote
\* activation of the matched certificate that is not desired is listed as
\* extra, and the unused-key list holds every key no certificate uses
C15_ListingsComplete ==
    \A s \in Syncs :
        (pc[s] = "apply" /\ SubjectReadyForReconciliation) =>
            /\ ObservedState.PrivateKeyUploaded <=>
                   \E i \in 1..Len(fastlyKeys) : fastlyKeys[i].sha1 = LocalFingerprint(s)
            /\ ObservedState.CertificateStatus = "Missing" <=> FirstNamed(s) = 0
            /\ FirstNamed(s) # 0 =>
                   \A i \in 1..Len(fastlyActs) :
                       (/\ fastlyActs[i].cert = fastlyCerts[FirstNamed(s)].id
                        /\ <<fastlyActs[i].domain, fastlyActs[i].config>> \notin
                               Range(fastlyCerts[FirstNamed(s)].domains)
                                   \X Range(subject[s].TLSConfigurationIds)) =>
                           fastlyActs[i].id \in Range(ObservedState.ExtraTLSActivationIDs)
            /\ Range(ObservedState.UnusedPrivateKeyIDs) =
                   {fastlyKeys[i].id : i \in {j \in 1..Len(fastlyKeys) :
                       \A c \in 1..Len(fastlyCerts) : fastlyCerts[c].pub # fastlyKeys[j].sha1}}

\* how often the pass of s has made a call of that name
CountCalls(s, name) == Cardinality({i \in 1..Len(calls[s]) : calls[s][i] = name})

\* the requests a complete paged listing of n items costs
PagedRequests(n) == (n \div 20) + 1

StepCalls(at) ==
    CASE at = "obsKey" -> {"ListPrivateKeys"}
      [] at = "obsCert" -> {"ListCustomTLSCertificates"}
      [] at = "obsAct" -> {"ListCustomTLSCertificates", "ListTLSActivations"}
      [] at = "obsUnused" -> {"ListPrivateKeys(FilterInUse=false)"}
      [] OTHER -> {}

\* C17: an observation step that returns an error ends ObserveResources
\* there: the step has written nothing to the Observation and made only its
\* own calls, and a pass that ended with an observation error takes no
\* further step but its return
C17_ObservationErrorAborts ==
    [][\A s \in Syncs :
          /\ (pc[s] \in {"obsKey", "obsCert", "obsAct", "obsUnused"}
                  /\ err'[s] = "observe") =>
                 /\ pc'[s] = "done"
                 /\ UNCHANGED <<logicVars, remoteVars>>
                 /\ Range(NewCalls(s)) \subseteq StepCalls(pc[s])
          /\ (pc[s] = "done" /\ err[s] = "observe") =>
                 /\ pc'[s] \in {"done", "idle"}
                 /\ UNCHANGED <<logicVars, remoteVars>>]_vars

\* the certificate step failed after the private key step had succeeded:
\* the pass is over and no activation or unused-key listing was made
C17_Witness ==
    /\ pc["s1"] = "done"
    /\ err["s1"] = "observe"
    /\ ObservedState.PrivateKeyUploaded
    /\ ObservedState.CertificateStatus = ""
    /\ CountCalls("s1", "ListCustomTLSCertificates") > 0
    /\ CountCalls("s1", "ListTLSActivations") = 0
    /\ CountCalls("s1", "ListPrivateKeys(FilterInUse=false)") = 0

\* C18: when the create-private-key, create-certificate or update-certificate
\* step fails, ApplyUnmanaged returns an error that names the operation, the
\* provider's stores are as before, no call of another step was made, no
\* re-run is asked for, and the pass takes no further step but its return
C18_MutationErrorAborts ==
    [][\A s \in Syncs :
          /\ (pc[s] = "apply" /\ pc'[s] # "apply" /\ err'[s] # "none"
                  /\ action'[s] \in {"createPrivateKey", "createCertificate",
                                      "updateCertificate"}) =>
                 /\ action'[s] = "createPrivateKey" =>
                        err'[s] = "failed to create Fastly private key"
                 /\ action'[s] = "createCertificate" =>
                        err'[s] = "failed to create Fastly certificate"
                 /\ action'[s] = "updateCertificate" =>
                        err'[s] = "failed to update Fastly certificate"
                 /\ UNCHANGED remoteVars
                 /\ \A i \in 1..Len(NewCalls(s)) :
                        NewCalls(s)[i] \in MutatingCalls =>
                            NewCalls(s)[i] = MutatingCallOf(action'[s])
                 /\ requeue'[s] = requeue[s]
                 /\ requeue'[s] # <<0>>
                 /\ pc'[s] = "done"
          /\ (pc[s] = "done" /\ err[s] \notin {"none", "observe", "panic"}) =>
                 /\ pc'[s] \in {"done", "idle"}
                 /\ UNCHANGED remoteVars]_vars

C18_Witness ==
    /\ pc["s1"] = "done"
    /\ action["s1"] = "updateCertificate"
    /\ err["s1"] = "failed to update Fastly certificate"
    /\ calls["s1"] = <<"ListCustomTLSCertificates", "UpdateCustomTLSCertificate">>
    /\ requeue["s1"] = <<>>
    /\ status["s1"] = NoStatus

\* C19: certificate observation gives a status for a SyncRequest whose
\* certificate exists remotely only if the leaf certificate of the local
\* secret could be decoded and parsed; otherwise the step returns an error
\* and the Observation holds none of Missing, Stale and Synced
C19_UndecodableCertificateIsError ==
    \A s \in Syncs :
        (pc[s] \notin {"idle", "gate"} /\ SubjectReadyForReconciliation /\ FirstNamed(s) # 0
            /\ ~ParseCertificateSerial(localCert[subject[s].CertificateName].crt).ok) =>
            /\ pc[s] \notin {"obsAct", "obsUnused", "apply"}
            /\ ObservedState.CertificateStatus \notin {"Missing", "Stale", "Synced"}

\* the items the per-item calls of a step of the pass of s were made for
NewItems(s) == SubSeq(callItems'[s], Len(callItems[s]) + 1, Len(callItems'[s]))

\* C20: the create-activations step issues one CreateTLSActivation for every
\* item of the missing list and the delete-activations step one
\* DeleteTLSActivation for every id of the extra list, in list order and
\* whatever calls failed; the step returns an error exactly when the provider
\* did not carry out every one of the calls
C20_ActivationLoopsAttemptAll ==
    [][\A s \in Syncs :
          /\ (pc[s] = "apply" /\ pc'[s] # "apply" /\ action'[s] = "createActivations") =>
                 LET missing == ObservedState.MissingTLSActivationData
                 IN  /\ NewCalls(s) = Repeat("CreateTLSActivation", Len(missing))
                     /\ NewItems(s) = [j \in 1..Len(missing) |->
                                          <<missing[j].Domain, missing[j].Configuration>>]
                     /\ err'[s] = "none" <=>
                            Len(fastlyActs') = Len(fastlyActs) + Len(missing)
                     /\ err'[s] \in {"none", "failed to create Fastly TLS activations"}
          /\ (pc[s] = "apply" /\ pc'[s] # "apply" /\ action'[s] = "deleteActivations") =>
                 LET extra == ObservedState.ExtraTLSActivationIDs
                 IN  /\ NewCalls(s) = Repeat("DeleteTLSActivation", Len(extra))
                     /\ NewItems(s) = extra
                     /\ err'[s] = "none" <=>
                            Len(fastlyActs') = Len(fastlyActs) - Len(extra)
                     /\ err'[s] \in {"none", "failed to delete Fastly TLS activations"}]_vars

\* the call for the first missing activation failed and the call for the
\* second was made and carried out
C20_Witness ==
    /\ pc["s1"] = "done"
    /\ action["s1"] = "createActivations"
    /\ err["s1"] = "failed to create Fastly TLS activations"
    /\ callItems["s1"] = << <<"d1", "c1">>, <<"d2", "c1">> >>
    /\ \E i \in 1..Len(fastlyActs) : fastlyActs[i].domain = "d2" /\ fastlyActs[i].config = "c1"
    /\ ~\E i \in 1..Len(fastlyActs) : fastlyActs[i].domain = "d1" /\ fastlyActs[i].config = "c1"

\* the ids of the keys the provider holds
KeyIds == {fastlyKeys[i].id : i \in 1..Len(fastlyKeys)}

\* C21: the cleanup step issues one DeletePrivateKey for every id of the
\* unused-key list, in list order and whatever deletions failed, and returns
\* no error: the pass goes on to its status with the re-run asked for
C21_CleanupAttemptsAllSwallowsErrors ==
    [][\A s \in Syncs :
          (pc[s] = "apply" /\ pc'[s] # "apply" /\ action'[s] = "deleteUnusedKeys") =>
              LET unused == ObservedState.UnusedPrivateKeyIDs
              IN  /\ NewCalls(s) = Repeat("DeletePrivateKey", Len(unused))
                  /\ NewItems(s) = unused
                  /\ err'[s] = "none"
                  /\ pc'[s] = "status"
                  /\ requeue'[s] = <<0>>]_vars

\* the deletion of the first unused key failed, the second key was deleted
\* all the same, and the pass ended without an error
C21_Witness ==
    /\ pc["s1"] = "done"
    /\ action["s1"] = "deleteUnusedKeys"
    /\ callItems["s1"] = <<102, 103>>
    /\ 102 \in KeyIds
    /\ 103 \notin KeyIds
    /\ err["s1"] = "none"
    /\ status["s1"] # NoStatus

\* the local Certificate, its Secret and the blob to upload can be read
LocalBlobReadable(s) ==
    LET secret == getCertificateAndTLSSecretFromSubject(s)
    IN  secret.ok /\ getCertPEMForSecret(secret).ok

\* C22: the update step looks the certificate up by name when it acts, before
\* any update call; when no certificate of the provider has the local
\* certificate's name at that time, the step fails, with "fastly certificate
\* not found" unless the lookup itself failed, no UpdateCustomTLSCertificate
\* call is made and the provider's stores stay as they were
C22_UpdateResolvesAtActionTime ==
    [][\A s \in Syncs :
          (pc[s] = "apply" /\ pc'[s] # "apply" /\ action'[s] = "updateCertificate") =>
              LET new == NewCalls(s)
                  updates == {i \in 1..Len(new) : new[i] = "UpdateCustomTLSCertificate"}
              IN  /\ \A i \in updates :
                         /\ i > 1
                         /\ \A j \in 1..(i - 1) : new[j] = "ListCustomTLSCertificates"
                  /\ (LocalBlobReadable(s) /\ FirstNamed(s) = 0) =>
                         /\ updates = {}
                         /\ new = <<"ListCustomTLSCertificates">>
                         /\ UNCHANGED remoteVars
                         /\ pc'[s] = "done"
                         /\ err'[s] = "failed to update Fastly certificate"
                         /\ errCause'[s] \in
                                {"fastly certificate not found",
                                 "failed to get Fastly certificate matching subject"}]_vars

\* the observation found the certificate stale, the certificate is gone when
\* the pass acts: the lookup was made, the update was not
C22_Witness ==
    /\ pc["s1"] = "done"
    /\ action["s1"] = "updateCertificate"
    /\ fastlyCerts = <<>>
    /\ snap["s1"].obs.CertificateStatus = "Stale"
    /\ errCause["s1"] = "fastly certificate not found"
    /\ calls["s1"] = <<"ListCustomTLSCertificates">>

\* C23: the readiness gate lets a pass go on to its observation steps exactly
\* when the Certificate named by the spec is found, its Secret is found and
\* the Certificate has a Ready condition with status True; in every other
\* case (no Certificate, no Secret, Ready False or Unknown, no Ready
\* condition) the flag stays false and the observation steps are skipped
C23_ReadinessGate ==
    [][\A s \in Syncs :
          (pc[s] = "gate" /\ pc'[s] # "gate") =>
              LET c == localCert[subject[s].CertificateName]
                  ready == c.exists /\ c.secretExists /\ c.ready = "True"
              IN  /\ SubjectReadyForReconciliation' = ready
                  /\ ready => pc'[s] = "obsKey"
                  /\ ~ready => /\ pc'[s] = "apply"
                                /\ calls'[s] = <<>>
                                /\ ObservedState' = ZeroObservedState]_vars

\* a Certificate whose Ready condition is Unknown did not pass the gate
C23_Witness ==
    /\ pc["s1"] = "apply"
    /\ localCert["ca"].exists /\ localCert["ca"].secretExists
    /\ localCert["ca"].ready = "Unknown"
    /\ ~SubjectReadyForReconciliation
    /\ requeue["s1"] = <<NotReadyRequeueSeconds>>

\* C24: an observation of a SyncRequest that follows another one of the same
\* SyncRequest, with no action and no change of the provider or the cluster
\* in between, leaves the same Observation in Logic, lists in the same order
C24_ObservationRepeatable ==
    [][\A s \in Syncs :
          (pc[s] = "obsUnused" /\ pc'[s] = "apply" /\ snap[s].ready) =>
              ObservedState' = snap[s].obs]_vars

\* the four sub-conditions of an Observation, in the order of their status
\* conditions: which of them hold
SubConditionsHold(o) ==
    <<o.PrivateKeyUploaded,
      o.CertificateStatus = "Synced",
      Len(o.MissingTLSActivationData) = 0 /\ Len(o.ExtraTLSActivationIDs) = 0,
      Len(o.UnusedPrivateKeyIDs) = 0>>

\* the reason each of the four conditions carries when its sub-condition holds
SyncedReasons ==
    <<"PrivateKeyUploaded", "CertificateSynced", "TLSActivationsSynced", "NoCleanupNeeded">>

\* C25: the status derived from an Observation whose four sub-conditions all
\* hold has Ready = true and the synced reason on each of the four
\* conditions; with exactly one sub-condition not holding, Ready is false,
\* the condition of that sub-condition has another reason and the three
\* others keep their synced reasons
C25_StatusOfOneFlip ==
    \A s \in Syncs :
        status[s] # NoStatus =>
            LET holds == SubConditionsHold(ObservedState)
                failing == {i \in 1..4 : ~holds[i]}
                reason(i) == status[s].Conditions[i].Reason
            IN  /\ failing = {} =>
                       /\ status[s].Ready
                       /\ \A i \in 1..4 : reason(i) = SyncedReasons[i]
                /\ Cardinality(failing) = 1 =>
                       /\ ~status[s].Ready
                       /\ ConditionStatus(status[s], "Ready") = "False"
                       /\ \A i \in 1..4 : (reason(i) # SyncedReasons[i]) <=> (i \in failing)

\* the status of an Observation in which only the activations are off, by an
\* extra activation
C25_Witness ==
    /\ status["s1"] # NoStatus
    /\ SubConditionsHold(ObservedState) = <<TRUE, TRUE, FALSE, TRUE>>
    /\ ObservedState.ExtraTLSActivationIDs # <<>>
    /\ ~status["s1"].Ready
    /\ status["s1"].Conditions[3].Reason = "TLSActivationsExtra"
    /\ status["s1"].Conditions[2].Reason = "CertificateSynced"

\* C26: when the pass comes to the activation step (the private-key and
\* certificate steps have succeeded) and no certificate of the provider has
\* the local certificate's name, the step does not crash; unless a listing
\* of the step fails it returns no error and leaves an empty missing list
\* and an empty extra list, and the observation goes on with
\* CertificateStatus = Missing
C26_NoCertificateNoActivations ==
    [][\A s \in Syncs :
          (pc[s] = "obsAct" /\ pc'[s] # "obsAct" /\ FirstNamed(s) = 0) =>
              /\ err'[s] # "panic"
              /\ err'[s] = "none" =>
                     /\ pc'[s] = "obsUnused"
                     /\ ObservedState'.MissingTLSActivationData = <<>>
                     /\ ObservedState'.ExtraTLSActivationIDs = <<>>
                     /\ ObservedState'.CertificateStatus = "Missing"]_vars

\* the mutating calls among the calls a step of the pass of s made
NewMutatingCalls(s) == {c \in Range(NewCalls(s)) : c \in MutatingCalls}

\* C27: the blob of a create-certificate or update-certificate call is the
\* leaf alone in production mode, whatever root the secret holds, and the
\* leaf followed by the root in local mode; in local mode a secret that holds
\* no root makes the step fail without any mutating call
C27_CertificateBlob ==
    [][\A s \in Syncs :
          (pc[s] = "apply" /\ pc'[s] # "apply"
              /\ action'[s] \in {"createCertificate", "updateCertificate"}) =>
              LET secret == localCert[subject[s].CertificateName]
              IN  /\ (~HackLocal /\ NewMutatingCalls(s) # {}) =>
                         NewItems(s) = << <<secret.crt>> >>
                  /\ (HackLocal /\ NewMutatingCalls(s) # {}) =>
                         NewItems(s) = << <<secret.crt, RootBlock>> >>
                  /\ (HackLocal /\ secret.ca # RootBlock) =>
                         /\ NewMutatingCalls(s) = {}
                         /\ err'[s] = ApplyError(action'[s])
                         /\ UNCHANGED remoteVars]_vars

\* the condition of a type in a status
ConditionOf(st, type) ==
    st.Conditions[CHOOSE i \in 1..Len(st.Conditions) : st.Conditions[i].Type = type]

\* C28: FillStatus writes CertificateReady as True / CertificateSynced for
\* the status Synced and for no other, False / CertificateStale for Stale,
\* False / CertificateMissing for Missing, and Unknown for any other value,
\* the zero value of a pass that did not run the certificate step included
C28_CertificateReadyCondition ==
    [][\A s \in Syncs :
          (pc[s] = "status" /\ pc'[s] = "done") =>
              LET c == ConditionOf(status'[s], "CertificateReady")
                  st == ObservedState.CertificateStatus
              IN  /\ st = "Synced" => c.Status = "True" /\ c.Reason = "CertificateSynced"
                  /\ st = "Stale" => c.Status = "False" /\ c.Reason = "CertificateStale"
                  /\ st = "Missing" => c.Status = "False" /\ c.Reason = "CertificateMissing"
                  /\ st \notin {"Synced", "Stale", "Missing"} => c.Status = "Unknown"
                  /\ (c.Status = "True" \/ c.Reason = "CertificateSynced") => st = "Synced"]_vars

\* a pass that the gate turned away filled the status from the zero
\* Observation: CertificateReady is Unknown
C28_Witness ==
    /\ pc["s1"] = "done"
    /\ action["s1"] = "skipped"
    /\ status["s1"] # NoStatus
    /\ ObservedState.CertificateStatus = ""
    /\ ConditionOf(status["s1"], "CertificateReady").Status = "Unknown"

\* C29: FillStatus writes TLSActivationReady as False / TLSActivationsMissing
\* whenever the missing list is not empty, also when the extra list is not
\* empty either; as False / TLSActivationsExtra exactly when the missing list
\* is empty and the extra list is not; as True exactly when both are empty
C29_TLSActivationReadyCondition ==
    [][\A s \in Syncs :
          (pc[s] = "status" /\ pc'[s] = "done") =>
              LET c == ConditionOf(status'[s], "TLSActivationReady")
                  missing == ObservedState.MissingTLSActivationData
                  extra == ObservedState.ExtraTLSActivationIDs
              IN  /\ missing # <<>> => c.Status = "False" /\ c.Reason = "TLSActivationsMissing"
                  /\ (c.Reason = "TLSActivationsExtra") <=> (missing = <<>> /\ extra # <<>>)
                  /\ c.Reason = "TLSActivationsExtra" => c.Status = "False"
                  /\ (c.Status = "True") <=> (missing = <<>> /\ extra = <<>>)]_vars

\* the status of an Observation that holds missing and extra activations
C29_Witness ==
    /\ pc["s1"] = "done"
    /\ status["s1"] # NoStatus
    /\ ObservedState.MissingTLSActivationData # <<>>
    /\ ObservedState.ExtraTLSActivationIDs # <<>>
    /\ ConditionOf(status["s1"], "TLSActivationReady").Reason = "TLSActivationsMissing"

\* the place of a remote call in the order list private keys, list
\* certificates, list activations, list unused private keys, mutating call
CallRank(c) ==
    CASE c = "ListPrivateKeys" -> 1
      [] c = "ListCustomTLSCertificates" -> 2
      [] c = "ListTLSActivations" -> 3
      [] c = "ListPrivateKeys(FilterInUse=false)" -> 4
      [] OTHER -> 5

\* the mutating calls of a call log are of one kind
OneKindOfMutatingCall(log) ==
    \A i, j \in 1..Len(log) :
        (log[i] \in MutatingCalls /\ log[j] \in MutatingCalls) => log[i] = log[j]

\* C30 as stated: the remote calls of a pass are, in this order, listings of
\* private keys, of certificates, of activations and of unused private keys,
\* then mutating calls of at most one kind
C30_CallOrderAsStated ==
    \A s \in Syncs :
        /\ \A i, j \in 1..Len(calls[s]) :
               i < j => CallRank(calls[s][i]) <= CallRank(calls[s][j])
        /\ OneKindOfMutatingCall(calls[s])

\* the position of the unused-key listing in a call log (0 when it was not made)
UnusedListingAt(log) ==
    LET at == {i \in 1..Len(log) : log[i] = "ListPrivateKeys(FilterInUse=false)"}
    IN  IF at = {} THEN 0 ELSE CHOOSE i \in at : TRUE

\* C30: the observation listings of a pass come in the order private keys,
\* certificates, activations, unused private keys (the unused-key listing is
\* made once and is the last of them); whatever call mutates comes after the
\* unused-key listing, and the mutating calls of a pass are of one kind; the
\* only listing after the observation is the certificate lookup of the update
\* step, which comes before the update call
C30_CallOrder ==
    \A s \in Syncs :
        LET log == calls[s]
            k == UnusedListingAt(log)
        IN  /\ \A i, j \in 1..Len(log) :
                   (i < j /\ (k = 0 \/ j <= k)) => CallRank(log[i]) <= CallRank(log[j])
            /\ \A i \in 1..Len(log) :
                   /\ log[i] \in MutatingCalls => (k > 0 /\ i > k)
                   /\ (k > 0 /\ i > k /\ log[i] \notin MutatingCalls) =>
                          /\ log[i] = "ListCustomTLSCertificates"
                          /\ action[s] = "updateCertificate"
                          /\ \A j \in 1..i : log[j] \notin MutatingCalls
            /\ Cardinality({i \in 1..Len(log) : CallRank(log[i]) = 4}) <= 1
            /\ OneKindOfMutatingCall(log)

\* a pass that found the certificate stale: the four kinds of listing in
\* order, the lookup of the update step, then the update call
C30_Witness ==
    /\ pc["s1"] = "status"
    /\ calls["s1"] = <<"ListPrivateKeys", "ListCustomTLSCertificates",
                       "ListCustomTLSCertificates", "ListTLSActivations",
                       "ListPrivateKeys(FilterInUse=false)",
                       "ListCustomTLSCertificates", "UpdateCustomTLSCertificate">>

\* the activation step's result names this certificate and no other: every
\* missing entry carries its id and one of its domains, every extra id is an
\* activation of it
DiffIsFor(o, cert) ==
    /\ \A i \in 1..Len(o.MissingTLSActivationData) :
           /\ o.MissingTLSActivationData[i].Certificate = cert.id
           /\ o.MissingTLSActivationData[i].Domain \in Range(cert.domains)
    /\ \A i \in 1..Len(o.ExtraTLSActivationIDs) :
           \E j \in 1..Len(fastlyActs) :
               /\ fastlyActs[j].id = o.ExtraTLSActivationIDs[i]
               /\ fastlyActs[j].cert = cert.id

\* C31: in every pass the activation diff is computed for the remote
\* certificate (same identifier, same domain list) that the certificate step
\* of that pass matched and judged, also when the provider's certificate
\* list changes between the two steps.  Does not hold: the activation step
\* resolves the certificate by name a second time.
C31_DiffForMatchedCertificate ==
    [][\A s \in Syncs :
         (pc[s] = "obsAct" /\ pc'[s] = "obsUnused")
             => /\ matched[s] # <<>>
                /\ DiffIsFor(ObservedState', matched[s])]_vars

\* the pass of s has selected no action and derived Ready=true
Converged(s) ==
    /\ pc[s] = "done"
    /\ action[s] = "none"
    /\ status[s].Ready

\* a remote call of the pass of s failed or did not take effect: a listing or
\* a mutation returned an error, or a key the cleanup was to delete is still
\* there
CallFailed(s) ==
    \/ err[s] \notin {"none", "panic"}
    \/ /\ action[s] = "deleteUnusedKeys"
       /\ \E i \in 1..Len(callItems[s]) : callItems[s][i] \in KeyIds

\* C32: with an unchanging, ready local certificate and a provider on which
\* every call succeeds and takes effect, a single SyncRequest started from
\* any remote state reaches a pass that selects no action and derives
\* Ready=true.  Does not hold from a remote state without the certificate.
C32_ConvergesToReady == <>(Converged("s1") \/ CallFailed("s1"))

\* C33: once a pass has selected no action and derived Ready=true, and
\* nothing but the SyncRequest's own passes touches the local certificate, the
\* spec or the account, no later pass issues a mutating call or asks for a
\* zero-delay re-run, the account stays as it is, and a later pass that
\* selects an action selects none and derives Ready=true again
C33_SyncedIsStable ==
    [][\A s \in Syncs :
         status[s].Ready
             => /\ NewMutatingCalls(s) = {}
                /\ remoteVars' = remoteVars
                /\ requeue'[s] # <<0>>
                /\ action'[s] \in {"", "none"}
                /\ status'[s].Ready]_vars

\* a later pass of a synced SyncRequest has selected no action again and is
\* about to derive its status
C33_Witness ==
    /\ status["s1"].Ready
    /\ pc["s1"] = "status"
    /\ action["s1"] = "none"
    /\ requeue["s1"] = <<>>
    /\ Len(calls["s1"]) >= 5

\* the key was uploaded by a pass of SyncRequest t: its id is one the model's
\* provider handed out, and its fingerprint is that of t's local key
UploadedBy(k, t) ==
    /\ k.id <= MaxId
    /\ k.sha1 = LocalFingerprint(t)

\* C34: with two SyncRequests on one account, the cleanup of one never
\* deletes a private key the other has uploaded and not yet attached to a
\* certificate.  Does not hold: the cleanup deletes every key of the account
\* that no certificate uses.
C34_CleanupSparesOthersKeys ==
    [][\A s \in Syncs :
         pc[s] = "apply"
             => \A i \in 1..Len(fastlyKeys) :
                    (\E t \in Syncs \ {s} : UploadedBy(fastlyKeys[i], t))
                        => fastlyKeys[i].id \in {fastlyKeys'[j].id : j \in 1..Len(fastlyKeys')}]_vars

\* the activation is one SyncRequest t wants: it is on the certificate t's
\* Certificate matches, for one of its domains and one of t's configurations
DesiredBy(a, t) ==
    /\ FirstNamed(t) # 0
    /\ a.cert = fastlyCerts[FirstNamed(t)].id
    /\ a.domain \in Range(fastlyCerts[FirstNamed(t)].domains)
    /\ a.config \in Range(subject[t].TLSConfigurationIds)

\* C35: two SyncRequests that name the same certificate with different
\* configuration-ID lists settle: a pass of one never deletes an activation
\* the other wants, and Ready=true, once reached, stays.  Does not hold: each
\* takes the other's activations for extra ones.
C35_SharedCertificateSettles ==
    [][\A s \in Syncs : \A t \in Syncs \ {s} :
         subject[s].CertificateName = subject[t].CertificateName
             => /\ status[s].Ready => status'[s].Ready
                /\ pc[s] = "apply"
                      => \A i \in 1..Len(fastlyActs) :
                             DesiredBy(fastlyActs[i], t)
                                 => \E j \in 1..Len(fastlyActs') :
                                        fastlyActs'[j].id = fastlyActs[i].id]_vars

\* the observation of the pass of s failed part-way: the pass is over, it
\* selected no action and made no mutating call
EndedInObservation(s) ==
    /\ pc[s] = "done"
    /\ action[s] = ""
    /\ Range(calls[s]) \cap MutatingCalls = {}
    /\ callItems[s] = <<>>

\* C36 as stated: after an observation step fails part-way through a pass no
\* mutating call is made, and what the failed observation left in Logic
\* (the readiness flag, the zero fields of the steps that did not run) is a
\* state in which the action step would take no action
C36_PartialObservationIsInert ==
    \A s \in Syncs :
        err[s] \in {"observe", "panic"}
            => /\ EndedInObservation(s)
               /\ selectAction(SubjectReadyForReconciliation, ObservedState)
                      \in {"skipped", "none"}

\* C36: after an observation step fails part-way through a pass, the pass
\* ends without selecting an action and without a mutating call; it is the
\* end of the pass that keeps the action step away, for what is left in
\* Logic would select an action
C36_FailedObservationEndsPass ==
    \A s \in Syncs : err[s] \in {"observe", "panic"} => EndedInObservation(s)

\* the certificate listing failed after the private key step found the key
\* missing: Logic holds a set readiness flag and PrivateKeyUploaded=false
C36_Witness ==
    /\ err["s1"] = "observe"
    /\ pc["s1"] = "done"
    /\ calls["s1"] = <<"ListPrivateKeys", "ListCustomTLSCertificates">>
    /\ SubjectReadyForReconciliation
    /\ selectAction(SubjectReadyForReconciliation, ObservedState) = "createPrivateKey"

\* C37: a pass asks for a zero-delay re-run only if at least one remote
\* mutation succeeded in it, so a SyncRequest whose unused-key deletions all
\* keep failing is not re-run with zero delay pass after pass.  Does not
\* hold: the cleanup branch asks for the re-run whatever its deletions did.
C37_RequeueOnlyAfterMutation ==
    [][\A s \in Syncs :
         (pc[s] = "apply" /\ requeue'[s] = <<0>>) => remoteVars' # remoteVars]_vars

\* C38: a (domain, configuration) pair for which an activation of the matched
\* certificate exists is not reported as missing, and no pair is reported as
\* missing twice, whatever the configuration-ID list (a list that repeats an
\* id included) and whatever the certificate's domains.  Does not hold for a
\* list that repeats an id.
C38_MissingIsSound ==
    \A s \in Syncs :
        (pc[s] \in {"obsUnused", "apply"} /\ SubjectReadyForReconciliation) =>
            LET cert == fastlyCerts[FirstNamed(s)]
                missing == ObservedState.MissingTLSActivationData
            IN  /\ \A i \in 1..Len(missing) :
                       ~\E j \in 1..Len(fastlyActs) :
                            /\ fastlyActs[j].cert = cert.id
                            /\ fastlyActs[j].domain = missing[i].Domain
                            /\ fastlyActs[j].config = missing[i].Configuration
                /\ \A i, j \in 1..Len(missing) : missing[i] = missing[j] => i = j

\* C39: every remote activation of the matched certificate whose (domain,
\* configuration) pair is not desired is reported as extra by the pass that
\* observes it, also when several remote activations share the pair.  Does
\* not hold: of the activations of one pair only the last listed is reported.
C39_ExtraIsComplete ==
    \A s \in Syncs :
        (pc[s] \in {"obsUnused", "apply"} /\ SubjectReadyForReconciliation) =>
            LET cert == fastlyCerts[FirstNamed(s)]
                desired == Range(cert.domains) \X Range(subject[s].TLSConfigurationIds)
            IN  \A j \in 1..Len(fastlyActs) :
                    (fastlyActs[j].cert = cert.id
                        /\ <<fastlyActs[j].domain, fastlyActs[j].config>> \notin desired)
                        => fastlyActs[j].id \in Range(ObservedState.ExtraTLSActivationIDs)

\* C40: a pass whose readiness gate fails derives Ready=false and derives
\* every condition from the zero Observation, whatever an earlier pass left
\* in Logic
C40_NotReadyStatusFromZeroObservation ==
    [][\A s \in Syncs :
         (pc[s] = "status" /\ action[s] = "skipped" /\ pc'[s] = "done")
             => /\ ~status'[s].Ready
                /\ status'[s] = filledStatus(ZeroObservedState)
                /\ ObservedState = ZeroObservedState
                /\ snap[s] = NoSnapshot]_vars

\* the pass of s1 failed its gate and has derived its status, after a pass of
\* s2 that observed an uploaded key and a synced certificate
C40_Witness ==
    /\ pc["s1"] = "done"
    /\ action["s1"] = "skipped"
    /\ requeue["s1"] = <<NotReadyRequeueSeconds>>
    /\ ~status["s1"].Ready
    /\ ConditionStatus(status["s1"], "CertificateReady") = "Unknown"
    /\ ConditionStatus(status["s2"], "PrivateKeyReady") = "True"
    /\ ConditionStatus(status["s2"], "CertificateReady") = "True"

====
